---- MODULE Spec2Model ----
(***************************************************************************)
(* Folder synchronisation (ExchangeEmailAccount.retrieve_folders), the     *)
(* folder tree endpoints (EmailFolderViewSet.tree / subfolders) and the     *)
(* colour validator (libs.db.colors) of the mail aggregator backend.       *)
(***************************************************************************)
EXTENDS Integers, Sequences, FiniteSets, TLC

\* ---------------------------------------------------------------- bounds
MaxName == 2        \* base_name values are 0..MaxName, compared as integers
MaxRemote == 2      \* folders below the remote inbox in one listing
NumAccounts == 2    \* email accounts; account a belongs to user a (OneToOne)
MaxRows == 3        \* rows of the EmailFolder table
MaxPersonalizations == 2    \* rows of both personalization tables together
MaxEmails == 3      \* rows of the Email table
MaxInFlight == 2    \* create requests between is_valid and INSERT at one time
NumAddresses == 2   \* rows of the EmailAddresses table
MaxAddressed == 2   \* emails of a mailbox whose address fields vary freely

None == 0           \* a null foreign key / an absent query parameter
InboxName == 0      \* display name of the remote inbox, the root of walk()
NullParam == -1     \* the query parameter parent=null

Names == 0..MaxName
Accounts == 1..NumAccounts
Users == 1..NumAccounts
Addresses == 1..NumAddresses     \* EmailAddresses rows; address i sorts as i
RecursionLimit == MaxRows + 1       \* interpreter recursion limit, above any acyclic depth

VARIABLES
    folders,    \* the EmailFolder table: set of [id, base_name, account, parent]
    nextId,     \* next primary key of the EmailFolder table
    rerun,      \* the EmailFolder table a repetition of the last sync would leave
    response,   \* outcome of the last operation
    emails,     \* the Email table: set of [message_id, folder, in_reply_to, is_read,
                \* from_address, to_addresses, reply_to_address]
    folder_personalizations,    \* set of [id, folder, display_name, display_color, tags]
    email_personalizations,     \* set of [id, email, notes, importance_level, tags]
    user_tags,  \* the UserTag table: set of [id, name, user]
    nextPk,     \* next primary keys of the personalization and tag tables
    running     \* the operations under way: the position of a sync between
                \* its row writes, the create requests between is_valid and INSERT

\* The tables beside EmailFolder.
mail == <<emails, folder_personalizations, email_personalizations, user_tags, nextPk>>

vars == <<folders, nextId, rerun, response, emails, folder_personalizations,
          email_personalizations, user_tags, nextPk, running>>

\* ------------------------------------------------------- remote mailbox
\* One entry per folder yielded by account.inbox.walk(), parents before their
\* children: its name and the position of its parent in the listing
\* (0: the inbox itself, which walk() does not yield).
ListingsOfLen(n) ==
    {l \in [1..n -> [name : Names, parent : 0..(MaxRemote - 1)]] :
        \A i \in 1..n : l[i].parent < i}

Listings == UNION {ListingsOfLen(n) : n \in 0..MaxRemote}

\* exchange_folder.parent.name
ParentName(l, i) == IF l[i].parent = 0 THEN InboxName ELSE l[l[i].parent].name

\* ------------------------------------------------------------ the table
Row(rows, id) == CHOOSE f \in rows : f.id = id

SetParent(rows, id, p) ==
    {IF f.id = id THEN [f EXCEPT !.parent = p] ELSE f : f \in rows}

EmptyMap == [n \in Names |-> None]

\* EmailFolder.objects.update_or_create(account=self, base_name=n,
\* defaults={"parent": None}); base_name carries unique=True.
UpdateOrCreate_insertOnly(st, a, n) ==
    [st EXCEPT !.rows = @ \cup {[id |-> st.nextId, base_name |-> n,
                                  account |-> a, parent |-> None]},
               !.nextId = @ + 1,
               !.map = [@ EXCEPT ![n] = st.nextId],
               !.created = Append(@, st.nextId)]

\* update_or_create without defaults: a row found keeps its parent.
UpdateOrCreate_keepParent(st, a, n) ==
    LET hit == {f \in st.rows : f.account = a /\ f.base_name = n}
    IN  IF hit # {}
        THEN LET f == CHOOSE f \in hit : TRUE
             IN  [st EXCEPT !.map = [@ EXCEPT ![n] = f.id],
                            !.created = Append(@, f.id)]
        ELSE IF \E f \in st.rows : f.base_name = n
        THEN [st EXCEPT !.ok = FALSE]
        ELSE [st EXCEPT !.rows = @ \cup {[id |-> st.nextId, base_name |-> n,
                                           account |-> a, parent |-> None]},
                        !.nextId = @ + 1,
                        !.map = [@ EXCEPT ![n] = st.nextId],
                        !.created = Append(@, st.nextId)]

\* update_or_create(base_name=n, ...): the row is looked up by name alone.
UpdateOrCreate_byNameOnly(st, a, n) ==
    LET hit == {f \in st.rows : f.base_name = n}
    IN  IF hit # {}
        THEN LET f == CHOOSE f \in hit : TRUE
             IN  [st EXCEPT !.rows = SetParent(@, f.id, None),
                            !.map = [@ EXCEPT ![n] = f.id],
                            !.created = Append(@, f.id)]
        ELSE [st EXCEPT !.rows = @ \cup {[id |-> st.nextId, base_name |-> n,
                                           account |-> a, parent |-> None]},
                        !.nextId = @ + 1,
                        !.map = [@ EXCEPT ![n] = st.nextId],
                        !.created = Append(@, st.nextId)]

UpdateOrCreate(st, a, n) ==
    LET hit == {f \in st.rows : f.account = a /\ f.base_name = n}
    IN  IF hit # {}
        THEN LET f == CHOOSE f \in hit : TRUE
             IN  [st EXCEPT !.rows = SetParent(@, f.id, None),
                            !.map = [@ EXCEPT ![n] = f.id],
                            !.created = Append(@, f.id)]
        ELSE IF \E f \in st.rows : f.base_name = n
        THEN [st EXCEPT !.ok = FALSE]          \* IntegrityError propagates
        ELSE [st EXCEPT !.rows = @ \cup {[id |-> st.nextId, base_name |-> n,
                                           account |-> a, parent |-> None]},
                        !.nextId = @ + 1,
                        !.map = [@ EXCEPT ![n] = st.nextId],
                        !.created = Append(@, st.nextId)]

\* First pass: create or update all folders without parent relationships.
RECURSIVE FirstPass(_, _, _, _)
FirstPass(st, a, l, i) ==
    IF i > Len(l) \/ ~st.ok THEN st
    ELSE FirstPass(UpdateOrCreate(st, a, l[i].name), a, l, i + 1)

\* A second pass that looks the parent up by name in the whole table.
LinkParent_anyAccount(st, l, i) ==
    LET email_folder == st.map[l[i].name]
        named == {f \in st.rows : f.base_name = ParentName(l, i)}
        parent_folder == IF named = {} THEN None ELSE (CHOOSE f \in named : TRUE).id
    IN  IF email_folder # None /\ parent_folder # None
           /\ Row(st.rows, email_folder).parent # parent_folder
        THEN [st EXCEPT !.rows = SetParent(@, email_folder, parent_folder)]
        ELSE st

\* One iteration of the second pass.
LinkParent(st, l, i) ==
    LET email_folder == st.map[l[i].name]
        parent_folder == st.map[ParentName(l, i)]
    IN  IF email_folder # None /\ parent_folder # None
           /\ Row(st.rows, email_folder).parent # parent_folder
        THEN [st EXCEPT !.rows = SetParent(@, email_folder, parent_folder)]
        ELSE st

\* Second pass: establish parent-child relationships.
RECURSIVE SecondPass(_, _, _)
SecondPass(st, l, i) ==
    IF i > Len(l) THEN st
    ELSE SecondPass(LinkParent(st, l, i), l, i + 1)

\* ExchangeEmailAccount.retrieve_folders on a connected account.
Sync(rows, nid, a, l) ==
    LET st0 == [rows |-> rows, nextId |-> nid, ok |-> TRUE,
                map |-> EmptyMap, created |-> <<>>]
        st1 == FirstPass(st0, a, l, 1)
    IN  IF st1.ok THEN SecondPass(st1, l, 1) ELSE st1

\* ------------------------------------------------------ folder endpoints
\* A serialized folder: the model fields, the nested subfolders, and err when
\* serializing it exceeded the interpreter's recursion limit (RecursionError).
Node(f, subs, err) ==
    [id |-> f.id, base_name |-> f.base_name, account |-> f.account,
     parent |-> f.parent, subfolders |-> subs, err |-> err]

\* The rows of S as a sequence, smallest rank first.
RECURSIVE SeqByRank(_, _)
SeqByRank(S, rank) ==
    IF S = {} THEN <<>>
    ELSE LET m == CHOOSE x \in S : \A y \in S : rank[x] <= rank[y]
         IN  <<m>> \o SeqByRank(S \ {m}, rank)

\* queryset.order_by("base_name")
OrderByBaseName(S) == SeqByRank(S, [f \in S |-> f.base_name])

\* A queryset without order_by: the rows come in the order the database
\* happens to produce, ord[id] being the position of row id in it.
Unordered(S, ord) == SeqByRank(S, [f \in S |-> ord[f.id]])

\* A queryset of folders that leaves out the owner filter.
GetQueryset_anyOwner(rows, user, account_id, parent_id, matching) ==
    LET byAccount == IF account_id # None
                     THEN {f \in rows : f.account = account_id} ELSE rows
        byParent == IF parent_id = NullParam THEN {f \in byAccount : f.parent = None}
                    ELSE IF parent_id # None
                    THEN {f \in byAccount : f.parent = parent_id} ELSE byAccount
    IN  {f \in byParent : f.base_name \in matching}

\* EmailFolderViewSet.get_queryset; matching is the set of names that contain
\* the search text (every name when there is no search parameter).
GetQueryset(rows, user, account_id, parent_id, matching) ==
    LET owned == {f \in rows : f.account = user}
        byAccount == IF account_id # None
                     THEN {f \in owned : f.account = account_id} ELSE owned
        byParent == IF parent_id = NullParam THEN {f \in byAccount : f.parent = None}
                    ELSE IF parent_id # None
                    THEN {f \in byAccount : f.parent = parent_id} ELSE byAccount
    IN  {f \in byParent : f.base_name \in matching}

\* obj.subfolders: the reverse side of EmailFolder.parent
SubfoldersOf(rows, f) == {c \in rows : c.parent = f.id}

\* EmailFolderTreeSerializer.to_representation with get_subfolders
RECURSIVE Serialize(_, _, _, _)
Serialize(rows, f, ord, depth) ==
    IF depth > RecursionLimit THEN Node(f, <<>>, TRUE)
    ELSE LET kids == Unordered(SubfoldersOf(rows, f), ord)
             subs == [i \in 1..Len(kids) |-> Serialize(rows, kids[i], ord, depth + 1)]
         IN  Node(f, subs, \E i \in 1..Len(subs) : subs[i].err)

SerializeMany(rows, fs, ord) ==
    [i \in 1..Len(fs) |-> Serialize(rows, fs[i], ord, 1)]

\* tree(): get_queryset().filter(parent__isnull=True)
TreeRoots_all(qs) == qs

TreeRoots(qs) == {f \in qs : f.parent = None}

\* ------------------------------------------------------- colour values
\* A string is the sequence of its characters.
Chars(s) == [i \in 1..Len(s) |-> SubSeq(s, i, i)]

Whitespace == {" ", "\t", "\n"}
Digits == {"0", "1", "2", "3", "4", "5", "6", "7", "8", "9"}
UpperCase == Chars("ABCDEFGHIJKLMNOPQRSTUVWXYZ")
LowerCase == Chars("abcdefghijklmnopqrstuvwxyz")
HexDigits == Digits \cup {"a", "b", "c", "d", "e", "f", "A", "B", "C", "D", "E", "F"}

\* str.lower()
LowerChar(c) ==
    IF \E k \in 1..Len(UpperCase) : UpperCase[k] = c
    THEN LowerCase[CHOOSE k \in 1..Len(UpperCase) : UpperCase[k] = c]
    ELSE c

Lower_identity(s) == s

Lower(s) == [i \in 1..Len(s) |-> LowerChar(s[i])]

\* str.strip()
StripOnce(s) ==
    LET t == IF Len(s) > 0 /\ s[1] \in Whitespace THEN Tail(s) ELSE s
    IN  IF Len(t) > 0 /\ t[Len(t)] \in Whitespace THEN SubSeq(t, 1, Len(t) - 1) ELSE t

Strip(s) ==
    LET keep == {i \in 1..Len(s) : s[i] \notin Whitespace}
    IN  IF keep = {} THEN <<>>
        ELSE SubSeq(s, CHOOSE i \in keep : \A j \in keep : i <= j,
                       CHOOSE i \in keep : \A j \in keep : i >= j)

\* Color value constants
RGB_MAX_VALUE_256 == 255 + 1

RGB_MAX_VALUE == 255
HSL_HUE_MAX == 360
HSL_SATURATION_MAX == 100
HSL_LIGHTNESS_MAX == 100
ALPHA_MAX == 1

CSS_NAMED_COLORS ==
    {Chars(n) : n \in {
        "transparent", "aliceblue", "antiquewhite", "aqua", "aquamarine",
        "azure", "beige", "bisque", "black", "blanchedalmond", "blue",
        "blueviolet", "brown", "burlywood", "cadetblue", "chartreuse",
        "chocolate", "coral", "cornflowerblue", "cornsilk", "crimson", "cyan",
        "darkblue", "darkcyan", "darkgoldenrod", "darkgray", "darkgrey",
        "darkgreen", "darkkhaki", "darkmagenta", "darkolivegreen", "darkorange",
        "darkorchid", "darkred", "darksalmon", "darkseagreen", "darkslateblue",
        "darkslategray", "darkslategrey", "darkturquoise", "darkviolet",
        "deeppink", "deepskyblue", "dimgray", "dimgrey", "dodgerblue",
        "firebrick", "floralwhite", "forestgreen", "fuchsia", "gainsboro",
        "ghostwhite", "gold", "goldenrod", "gray", "grey", "green",
        "greenyellow", "honeydew", "hotpink", "indianred", "indigo", "ivory",
        "khaki", "lavender", "lavenderblush", "lawngreen", "lemonchiffon",
        "lightblue", "lightcoral", "lightcyan", "lightgoldenrodyellow",
        "lightgray", "lightgrey", "lightgreen", "lightpink", "lightsalmon",
        "lightseagreen", "lightskyblue", "lightslategray", "lightslategrey",
        "lightsteelblue", "lightyellow", "lime", "limegreen", "linen", "magenta",
        "maroon", "mediumaquamarine", "mediumblue", "mediumorchid",
        "mediumpurple", "mediumseagreen", "mediumslateblue", "mediumspringgreen",
        "mediumturquoise", "mediumvioletred", "midnightblue", "mintcream",
        "mistyrose", "moccasin", "navajowhite", "navy", "oldlace", "olive",
        "olivedrab", "orange", "orangered", "orchid", "palegoldenrod",
        "palegreen", "paleturquoise", "palevioletred", "papayawhip", "peachpuff",
        "peru", "pink", "plum", "powderblue", "purple", "red", "rosybrown",
        "royalblue", "saddlebrown", "salmon", "sandybrown", "seagreen",
        "seashell", "sienna", "silver", "skyblue", "slateblue", "slategray",
        "slategrey", "snow", "springgreen", "steelblue", "tan", "teal",
        "thistle", "tomato", "turquoise", "violet", "wheat", "white",
        "whitesmoke", "yellow", "yellowgreen"}}

\* A compiled pattern is a sequence of items, each a character class repeated
\* between min and max times (max -1: any number of times, as for * and +).
Lit(c) == [cls |-> {c}, min |-> 1, max |-> 1]
Word(w) == [i \in 1..Len(w) |-> Lit(SubSeq(w, i, i))]
Spaces == <<[cls |-> Whitespace, min |-> 0, max |-> -1]>>
Int3 == <<[cls |-> Digits, min |-> 1, max |-> 3]>>
Number == <<[cls |-> Digits, min |-> 0, max |-> -1],
            [cls |-> {"."}, min |-> 0, max |-> 1],
            [cls |-> Digits, min |-> 1, max |-> -1]>>
Comma == Spaces \o Word(",") \o Spaces
Percent == Word("%")
HexRun(n) == <<Lit("#"), [cls |-> HexDigits, min |-> n, max |-> n]>>

\* Regex patterns for color formats
HEX_PATTERN == {HexRun(3), HexRun(6), HexRun(8)}
RGB_PATTERN ==
    Word("rgb(") \o Spaces \o Int3 \o Comma \o Int3 \o Comma \o Int3
        \o Spaces \o Word(")")
RGBA_PATTERN ==
    Word("rgba(") \o Spaces \o Int3 \o Comma \o Int3 \o Comma \o Int3
        \o Comma \o Number \o Spaces \o Word(")")
HSL_PATTERN ==
    Word("hsl(") \o Spaces \o Int3 \o Comma \o Int3 \o Percent \o Comma
        \o Int3 \o Percent \o Spaces \o Word(")")
HSLA_PATTERN ==
    Word("hsla(") \o Spaces \o Int3 \o Comma \o Int3 \o Percent \o Comma
        \o Int3 \o Percent \o Comma \o Number \o Spaces \o Word(")")

\* Positions at which item can stop when it starts at position p of s.
Stops(s, p, item) ==
    {q \in p..(Len(s) + 1) :
        /\ q - p >= item.min
        /\ (item.max = -1 \/ q - p <= item.max)
        /\ \A k \in p..(q - 1) : s[k] \in item.cls}

RECURSIVE StopsOfAll(_, _, _, _)
StopsOfAll(pat, i, s, P) ==
    IF i > Len(pat) \/ P = {} THEN P
    ELSE StopsOfAll(pat, i + 1, s, UNION {Stops(s, p, pat[i]) : p \in P})

\* re.compile("^...$").match(s): $ matches at the end of the string and
\* just before a newline that ends it.
Match(pat, s) ==
    \E q \in StopsOfAll(pat, 1, s, {1}) :
        q = Len(s) + 1 \/ (q = Len(s) /\ s[Len(s)] = "\n")

\* match.groups(): every group of the patterns is a run of digits and dots
\* delimited by other characters, so the groups are those runs, in order.
NumberChars == Digits \cup {"."}

RECURSIVE Groups(_, _)
Groups(s, i) ==
    IF i > Len(s) THEN <<>>
    ELSE IF s[i] \notin NumberChars THEN Groups(s, i + 1)
    ELSE LET stop == CHOOSE q \in i..Len(s) :
                         /\ \A k \in i..q : s[k] \in NumberChars
                         /\ (q = Len(s) \/ s[q + 1] \notin NumberChars)
         IN  <<SubSeq(s, i, stop)>> \o Groups(s, stop + 1)

DigitValue(c) == CHOOSE v \in 0..9 : Chars("0123456789")[v + 1] = c

\* int(group) for a group of one to three digits
RECURSIVE ToInt(_)
ToInt(g) ==
    IF g = <<>> THEN 0
    ELSE 10 * ToInt(SubSeq(g, 1, Len(g) - 1)) + DigitValue(g[Len(g)])

\* The decimal digits of 2^-53 after the point: float() rounds to the nearest
\* double, ties to even, so a literal is converted to at most 1.0 exactly when
\* its value is at most 1 + 2^-53.
HalfUlpOfOne == Chars("00000000000000011102230246251565404236316680908203125")

RECURSIVE DigitsLeq(_, _, _)
DigitsLeq(a, b, i) ==
    LET x == IF i <= Len(a) THEN DigitValue(a[i]) ELSE 0
        y == IF i <= Len(b) THEN DigitValue(b[i]) ELSE 0
    IN  IF i > Len(a) /\ i > Len(b) THEN TRUE
        ELSE IF x # y THEN x < y
        ELSE DigitsLeq(a, b, i + 1)

\* 0 <= float(group) <= ALPHA_MAX
AlphaInRange(g) ==
    LET dots == {i \in 1..Len(g) : g[i] = "."}
        dot == IF dots = {} THEN Len(g) + 1 ELSE CHOOSE i \in dots : TRUE
        whole == SubSeq(g, 1, dot - 1)
        frac == SubSeq(g, dot + 1, Len(g))
        units == {i \in 1..Len(whole) : whole[i] # "0"}
    IN  \/ units = {}
        \/ /\ units = {Len(whole)}
           /\ whole[Len(whole)] = Chars("0123456789")[ALPHA_MAX + 1]
           /\ DigitsLeq(frac, HalfUlpOfOne, 1)

RgbInRange(g) == \A i \in 1..3 : 0 <= ToInt(g[i]) /\ ToInt(g[i]) <= RGB_MAX_VALUE

HslInRange(g) ==
    /\ 0 <= ToInt(g[1]) /\ ToInt(g[1]) <= HSL_HUE_MAX
    /\ 0 <= ToInt(g[2]) /\ ToInt(g[2]) <= HSL_SATURATION_MAX
    /\ 0 <= ToInt(g[3]) /\ ToInt(g[3]) <= HSL_LIGHTNESS_MAX

\* validate_color: "valid" when it returns, else the code of the
\* ValidationError it raises.
validate_color(raw) ==
    IF raw = <<>> THEN "valid"
    ELSE IF Strip(raw) = <<>> THEN "valid"
    ELSE LET value == Lower(Strip(raw))
             g == Groups(value, 1)
         IN  IF \E pat \in HEX_PATTERN : Match(pat, value) THEN "valid"
             ELSE IF value \in CSS_NAMED_COLORS THEN "valid"
             ELSE IF Match(RGB_PATTERN, value)
             THEN IF RgbInRange(g) THEN "valid" ELSE "invalid_rgb_range"
             ELSE IF Match(RGBA_PATTERN, value)
             THEN IF RgbInRange(g) /\ AlphaInRange(g[4])
                  THEN "valid" ELSE "invalid_rgba_range"
             ELSE IF Match(HSL_PATTERN, value)
             THEN IF HslInRange(g) THEN "valid" ELSE "invalid_hsl_range"
             ELSE IF Match(HSLA_PATTERN, value)
             THEN IF HslInRange(g) /\ AlphaInRange(g[4])
                  THEN "valid" ELSE "invalid_hsla_range"
             ELSE "invalid_color_format"

\* ColorFieldSerializer.to_internal_value (allow_blank and trim_whitespace at
\* their defaults): the normalized value, or the error of the validator.
to_internal_value(data) ==
    LET value == Strip(data)                \* CharField.to_internal_value
        normalized_value == Lower(Strip(value))
    IN  IF value = <<>> THEN [status |-> "valid", value |-> value]
        ELSE IF validate_color(normalized_value) = "valid"
        THEN [status |-> "valid", value |-> normalized_value]
        ELSE [status |-> validate_color(normalized_value), value |-> <<>>]

\* ColorField.get_prep_value
get_prep_value_stripOnce(value) ==
    IF value # <<>> THEN Lower(StripOnce(value)) ELSE value

get_prep_value(value) ==
    IF value # <<>> THEN Lower(Strip(value)) ELSE value

\* ------------------------------------------------------------- inputs
\* Colour strings handed to the validator: every call syntax with one
\* component varied over the pools, the same calls in other spacings, hex and
\* keyword strings, well-formed and not, and all of these padded with
\* whitespace.
IntPool ==
    {"0", "7", "007", "255", "256", "100", "101", "360", "361", "999", "1000",
     "0255", "", "-1", "1.5", "ff"}
AlphaPool ==
    {"0", "1", "0.5", ".5", "1.0", "1.5", "2", "1.", "01", "1.0000000000000001",
     "1.0000000000000002", "-0.1", "", "1e0"}
Compact == [open |-> "(", sep |-> ",", close |-> ")"]
Spacings ==
    {[open |-> "( ", sep |-> " ,\t", close |-> " )"],
     [open |-> " (", sep |-> ", ", close |-> ")"],
     [open |-> "(", sep |-> ", ", close |-> ")"]}
Paddings == {<<"  ", " ">>, <<"\t", "\n">>, <<"", "\n">>}

RgbArgs ==
    {<<x, "0", "0">> : x \in IntPool} \cup {<<"255", x, "0">> : x \in IntPool}
        \cup {<<"0", "128", x>> : x \in IntPool} \cup {<<"1", "2">>}
RgbaArgs ==
    {<<x, "0", "0", "0.5">> : x \in IntPool} \cup {<<"255", x, "0", "1">> : x \in IntPool}
        \cup {<<"0", "128", x, "0">> : x \in IntPool}
        \cup {<<"1", "2", "3", x>> : x \in AlphaPool}
HslArgs ==
    {<<x, "0%", "0%">> : x \in IntPool} \cup {<<"360", x \o "%", "0%">> : x \in IntPool}
        \cup {<<"9", "100%", x \o "%">> : x \in IntPool}
        \cup {<<"9", "100", "60%">>, <<"9", "100 %", "60%">>, <<"9%", "100%", "60%">>}
HslaArgs ==
    {<<x, "0%", "0%", "0.5">> : x \in IntPool}
        \cup {<<"360", x \o "%", "0%", "1">> : x \in IntPool}
        \cup {<<"9", "100%", x \o "%", "0">> : x \in IntPool}
        \cup {<<"9", "100%", "60%", x>> : x \in AlphaPool}
        \cup {<<"9", "100%", "60%", "50%">>}
SomeArgs ==
    {<<"255", "87", "51">>, <<"256", "0", "0">>, <<"1000", "0", "0">>,
     <<"100", "100", "100", "0.5">>, <<"100", "100", "100", "1.5">>,
     <<"9", "100%", "60%">>, <<"361", "50%", "50%">>,
     <<"180", "50%", "50%", "0.8">>, <<"180", "50%", "101%", "1">>}

RECURSIVE Join(_, _)
Join(args, sep) ==
    IF Len(args) = 0 THEN ""
    ELSE IF Len(args) = 1 THEN args[1]
    ELSE args[1] \o sep \o Join(Tail(args), sep)

Render(names, spacings, argss) ==
    {name \o sp.open \o Join(args, sp.sep) \o sp.close :
        name \in names, sp \in spacings, args \in argss}

Calls ==
    Render({"rgb", "RGB", "rgba", "rgbb"}, {Compact}, RgbArgs)
        \cup Render({"rgba", "Rgba", "rgb"}, {Compact}, RgbaArgs)
        \cup Render({"hsl", "HSL", "hsla"}, {Compact}, HslArgs)
        \cup Render({"hsla", "Hsla", "hsl"}, {Compact}, HslaArgs)

Spaced == Render({"rgb", "rgba", "hsl", "HSLA"}, Spacings, SomeArgs)

Plain ==
    {"", "#", "#f", "#ff", "#fff", "#ffff", "#fffff", "#ffffff", "#fffffff",
     "#ffffffff", "#fffffffff", "#FFF", "#a1B2c3", "#FF5733FF", "#ggg", "#12345g",
     "#XYZ123", "fff", "FF5733", "# fff", "##fff", "#ff f",
     "red", "RED", "Blue", "transparent", "cornflowerblue", "grey", "DarkGrey",
     "notacolor", "re d", "reds", "re", "not-a-color", "rgb", "rgb()", "255"}

ColorInputs ==
    {Chars(body) : body \in Calls \cup Spaced \cup Plain \cup {" ", "   ", "\t\n"}}
        \cup {Chars(pad[1] \o body \o pad[2]) :
                 pad \in Paddings, body \in Spaced \cup Plain}

\* ----------------------------------------------------- personalizations
display_color_max_length == 7       \* EmailFolderPersonalization.display_color
display_name_max_length == 255      \* EmailFolderPersonalization.display_name
ColorFieldSerializer_max_length == 50

\* Requests run in one database transaction that is rolled back when the
\* request ends in an error ("all-or-nothing within one call").
ATOMIC_REQUESTS == TRUE

\* The text of n characters c.
RECURSIVE Repeat(_, _)
Repeat(c, n) ==
    IF n = 0 THEN ""
    ELSE LET half == Repeat(c, n \div 2)
         IN  half \o half \o (IF n % 2 = 1 THEN c ELSE "")

\* The field display_color = ColorFieldSerializer(required=False,
\* allow_blank=True): blank input is returned as "", anything else goes
\* through to_internal_value and then the max_length validator.
run_validation(data) ==
    IF Strip(data) = <<>> THEN [status |-> "valid", value |-> <<>>]
    ELSE LET r == to_internal_value(data)
         IN  IF r.status = "valid" /\ Len(r.value) > ColorFieldSerializer_max_length
             THEN [status |-> "max_length", value |-> <<>>]
             ELSE r

\* EmailFolderPersonalization.display_color.clean(): the validators of
\* models.CharField(max_length=7, blank=True); the value is kept as given.
display_color_clean(value) ==
    IF Len(value) > display_color_max_length THEN "max_length" ELSE "valid"

\* The personalization tables as one value.
Db == [folder_personalizations |-> folder_personalizations,
       email_personalizations |-> email_personalizations,
       user_tags |-> user_tags, nextPk |-> nextPk]

\* What a request leaves behind when it ends in an error after writing.
Rollback(before, partial) == IF ATOMIC_REQUESTS THEN before ELSE partial

\* UserTaggitSerializer._save_tags: get or create one UserTag per name for the
\* requesting user, then instance.tags.set(...). fault: the position in
\* tag_list at which the database raises (0: it does not).
RECURSIVE GetOrCreateTags(_, _, _, _, _)
GetOrCreateTags(st, user, tag_list, fault, i) ==
    IF i > Len(tag_list) THEN st
    ELSE IF i = fault THEN [st EXCEPT !.ok = FALSE]
    ELSE LET tag_name == tag_list[i]
             hit == {t \in st.db.user_tags : t.name = tag_name /\ t.user = user}
         IN  IF hit # {}
             THEN GetOrCreateTags(
                     [st EXCEPT !.tag_objects = @ \cup {(CHOOSE t \in hit : TRUE).id}],
                     user, tag_list, fault, i + 1)
             ELSE GetOrCreateTags(
                     [st EXCEPT !.db.user_tags =
                                    @ \cup {[id |-> st.db.nextPk.user_tag,
                                             name |-> tag_name, user |-> user]},
                                !.db.nextPk.user_tag = @ + 1,
                                !.tag_objects = @ \cup {st.db.nextPk.user_tag}],
                     user, tag_list, fault, i + 1)

\* _save_tags that keeps one tag per name, shared by all users.
save_tags_sharedByAll(db, user, tag_list, fault) ==
    GetOrCreateTags([db |-> db, tag_objects |-> {}, ok |-> TRUE],
                    1, tag_list, fault, 1)

save_tags(db, user, tag_list, fault) ==
    GetOrCreateTags([db |-> db, tag_objects |-> {}, ok |-> TRUE],
                    user, tag_list, fault, 1)

\* serializer.is_valid() of EmailFolderPersonalizationSerializer: the names of
\* the fields in error. data.given names the fields the request body carries.
FolderPersonalizationErrors(rows, data, partial) ==
    {name \in {"folder", "display_name", "display_color", "tags"} :
        IF name \notin data.given THEN name = "folder" /\ ~partial
        ELSE CASE name = "folder" -> ~\E f \in rows : f.id = data.folder
               [] name = "display_name" ->
                      Len(data.display_name) > display_name_max_length
               [] name = "display_color" ->
                      run_validation(data.display_color).status # "valid"
               [] name = "tags" -> ~data.tags.well_formed}

\* validated_data of a valid request
FolderPersonalizationValidated(data) ==
    [data EXCEPT !.display_color = run_validation(data.display_color).value]

\* EmailFolderPersonalizationViewSet.get_queryset: the personalizations of
\* the user's folders.
FolderPersonalizationQueryset(rows, fps, user) ==
    {p \in fps : \E f \in rows : f.id = p.folder /\ f.account = user}

\* create() on a folder reference that is a plain ForeignKey: a folder may
\* be personalized again.
FolderPersonalizationSerializerCreate_manyPerFolder(db, user, data, validated_data, strict, fault) ==
    LET pk == db.nextPk.folder_personalization
        instance == [id |-> pk, folder |-> data.folder, display_name |-> "",
                     display_color |-> <<>>, tags |-> {}]
    IN  [db |-> [db EXCEPT !.folder_personalizations = @ \cup {instance},
                           !.nextPk.folder_personalization = @ + 1],
         status |-> "201", pk |-> pk]

\* EmailFolderPersonalizationSerializer.create(validated_data)
FolderPersonalizationSerializerCreate(db, user, data, validated_data, strict, fault) ==
    LET tags_data == IF "tags" \in data.given THEN data.tags.names ELSE <<>>
        pk == db.nextPk.folder_personalization
        instance ==
            [id |-> pk, folder |-> data.folder,
             display_name |-> IF "display_name" \in data.given
                              THEN validated_data.display_name ELSE "",
             display_color |-> IF "display_color" \in data.given
                               THEN validated_data.display_color ELSE <<>>,
             tags |-> {}]
        refused == \/ \E p \in db.folder_personalizations : p.folder = data.folder
                   \/ strict /\ Len(instance.display_color) > display_color_max_length
        created == [db EXCEPT !.folder_personalizations = @ \cup {instance},
                              !.nextPk.folder_personalization = @ + 1]
        tagged == save_tags(created, user, tags_data, fault)
        done == [tagged.db EXCEPT !.folder_personalizations =
                    (@ \ {instance}) \cup {[instance EXCEPT !.tags = tagged.tag_objects]}]
    IN  IF refused                      \* IntegrityError or DataError on INSERT
        THEN [db |-> db, status |-> "500", pk |-> None]
        ELSE IF ~tagged.ok
        THEN [db |-> Rollback(db, tagged.db), status |-> "500", pk |-> None]
        ELSE [db |-> done, status |-> "201", pk |-> pk]

\* CreateModelMixin.create: is_valid(raise_exception=True), then
\* perform_create saves through the serializer.
FolderPersonalizationCreate(db, rows, user, data, strict, fault) ==
    IF FolderPersonalizationErrors(rows, data, FALSE) # {}
    THEN [db |-> db, status |-> "400", pk |-> None]
    ELSE FolderPersonalizationSerializerCreate(
             db, user, data, FolderPersonalizationValidated(data), strict, fault)

\* EmailFolderPersonalizationSerializer.update(instance, validated_data)
FolderPersonalizationSerializerUpdate(db, user, instance, data, validated_data, strict, fault) ==
    LET assigned ==
            [instance EXCEPT
                !.folder = IF "folder" \in data.given THEN validated_data.folder ELSE @,
                !.display_name = IF "display_name" \in data.given
                                 THEN validated_data.display_name ELSE @,
                !.display_color = IF "display_color" \in data.given
                                  THEN validated_data.display_color ELSE @]
        refused == \/ \E p \in db.folder_personalizations \ {instance} :
                         p.folder = assigned.folder
                   \/ strict /\ Len(assigned.display_color) > display_color_max_length
        saved == [db EXCEPT !.folder_personalizations = (@ \ {instance}) \cup {assigned}]
        tagged == save_tags(saved, user, data.tags.names, fault)
        done == [tagged.db EXCEPT !.folder_personalizations =
                    (@ \ {assigned}) \cup {[assigned EXCEPT !.tags = tagged.tag_objects]}]
    IN  IF refused                      \* IntegrityError or DataError on UPDATE
        THEN [db |-> db, status |-> "500", pk |-> None]
        ELSE IF "tags" \notin data.given
        THEN [db |-> saved, status |-> "200", pk |-> instance.id]
        ELSE IF ~tagged.ok
        THEN [db |-> Rollback(db, tagged.db), status |-> "500", pk |-> None]
        ELSE [db |-> done, status |-> "200", pk |-> instance.id]

\* UpdateModelMixin.update (PUT) and partial_update (PATCH): get_object(),
\* is_valid(raise_exception=True), then perform_update saves.
FolderPersonalizationUpdate(db, rows, user, pk, data, partial, strict, fault) ==
    LET found == {p \in FolderPersonalizationQueryset(rows, db.folder_personalizations, user)
                    : p.id = pk}
    IN  IF found = {} THEN [db |-> db, status |-> "404", pk |-> None]
        ELSE IF FolderPersonalizationErrors(rows, data, partial) # {}
        THEN [db |-> db, status |-> "400", pk |-> None]
        ELSE FolderPersonalizationSerializerUpdate(
                 db, user, CHOOSE p \in found : TRUE, data,
                 FolderPersonalizationValidated(data), strict, fault)

\* The model layer: EmailFolderPersonalization(folder=folder,
\* display_color=value).full_clean() and save().
FolderPersonalizationModelSave(db, folder, value) ==
    LET pk == db.nextPk.folder_personalization
        instance == [id |-> pk, folder |-> folder, display_name |-> "",
                     display_color |-> value, tags |-> {}]
    IN  IF display_color_clean(value) # "valid"
           \/ \E p \in db.folder_personalizations : p.folder = folder
        THEN [db |-> db, status |-> "invalid", pk |-> None]
        ELSE [db |-> [db EXCEPT !.folder_personalizations = @ \cup {instance},
                                !.nextPk.folder_personalization = @ + 1],
              status |-> "saved", pk |-> pk]

\* serializers.IntegerField: the text of an integer
IsInteger(text) == Len(text) > 0 /\ \A i \in 1..Len(text) : text[i] \in Digits

\* serializer.is_valid() of EmailPersonalizationSerializer
EmailPersonalizationErrors(mails, data, partial) ==
    {name \in {"email", "notes", "importance_level", "tags"} :
        IF name \notin data.given THEN name = "email" /\ ~partial
        ELSE CASE name = "email" -> ~\E e \in mails : e.message_id = data.email
               [] name = "notes" -> FALSE
               [] name = "importance_level" -> ~IsInteger(data.importance_level)
               [] name = "tags" -> ~data.tags.well_formed}

\* EmailPersonalizationViewSet.get_queryset: the personalizations of the
\* emails in the user's folders.
EmailPersonalizationQueryset(rows, mails, eps, user) ==
    {p \in eps : \E e \in mails, f \in rows :
        e.message_id = p.email /\ e.folder = f.id /\ f.account = user}

\* EmailPersonalizationSerializer.create behind CreateModelMixin.create
EmailPersonalizationCreate(db, mails, user, data, fault) ==
    LET tags_data == IF "tags" \in data.given THEN data.tags.names ELSE <<>>
        pk == db.nextPk.email_personalization
        instance ==
            [id |-> pk, email |-> data.email,
             notes |-> IF "notes" \in data.given THEN data.notes ELSE "",
             importance_level |-> IF "importance_level" \in data.given
                                  THEN ToInt(data.importance_level) ELSE None,
             tags |-> {}]
        refused == \E p \in db.email_personalizations : p.email = data.email
        created == [db EXCEPT !.email_personalizations = @ \cup {instance},
                              !.nextPk.email_personalization = @ + 1]
        tagged == save_tags(created, user, tags_data, fault)
        done == [tagged.db EXCEPT !.email_personalizations =
                    (@ \ {instance}) \cup {[instance EXCEPT !.tags = tagged.tag_objects]}]
    IN  IF EmailPersonalizationErrors(mails, data, FALSE) # {}
        THEN [db |-> db, status |-> "400", pk |-> None]
        ELSE IF refused                 \* IntegrityError on INSERT
        THEN [db |-> db, status |-> "500", pk |-> None]
        ELSE IF ~tagged.ok
        THEN [db |-> Rollback(db, tagged.db), status |-> "500", pk |-> None]
        ELSE [db |-> done, status |-> "201", pk |-> pk]

\* An update that writes the fields it accepts before it reports the ones it
\* rejects.
EmailPersonalizationUpdate_saveAccepted(db, rows, mails, user, pk, data, partial, fault) ==
    LET found == {p \in EmailPersonalizationQueryset(rows, mails,
                                                     db.email_personalizations, user)
                    : p.id = pk}
        instance == CHOOSE p \in found : TRUE
        errors == EmailPersonalizationErrors(mails, data, partial)
        assigned ==
            [instance EXCEPT
                !.email = IF "email" \in data.given \ errors THEN data.email ELSE @,
                !.notes = IF "notes" \in data.given \ errors THEN data.notes ELSE @,
                !.importance_level = IF "importance_level" \in data.given \ errors
                                     THEN ToInt(data.importance_level) ELSE @]
        refused == \E p \in db.email_personalizations \ {instance} :
                       p.email = assigned.email
        saved == [db EXCEPT !.email_personalizations = (@ \ {instance}) \cup {assigned}]
        tagged == save_tags(saved, user, data.tags.names, fault)
        done == [tagged.db EXCEPT !.email_personalizations =
                    (@ \ {assigned}) \cup {[assigned EXCEPT !.tags = tagged.tag_objects]}]
    IN  IF found = {} THEN [db |-> db, status |-> "404", pk |-> None]
        ELSE IF refused THEN [db |-> db, status |-> "500", pk |-> None]
        ELSE IF errors # {} THEN [db |-> saved, status |-> "400", pk |-> None]
        ELSE IF "tags" \notin data.given THEN [db |-> saved, status |-> "200", pk |-> pk]
        ELSE IF ~tagged.ok
        THEN [db |-> Rollback(db, tagged.db), status |-> "500", pk |-> None]
        ELSE [db |-> done, status |-> "200", pk |-> pk]

\* EmailPersonalizationSerializer.update behind UpdateModelMixin.update (PUT)
\* and partial_update (PATCH) on the object get_object() finds.
EmailPersonalizationUpdate(db, rows, mails, user, pk, data, partial, fault) ==
    LET found == {p \in EmailPersonalizationQueryset(rows, mails,
                                                     db.email_personalizations, user)
                    : p.id = pk}
        instance == CHOOSE p \in found : TRUE
        assigned ==
            [instance EXCEPT
                !.email = IF "email" \in data.given THEN data.email ELSE @,
                !.notes = IF "notes" \in data.given THEN data.notes ELSE @,
                !.importance_level = IF "importance_level" \in data.given
                                     THEN ToInt(data.importance_level) ELSE @]
        refused == \E p \in db.email_personalizations \ {instance} :
                       p.email = assigned.email
        saved == [db EXCEPT !.email_personalizations = (@ \ {instance}) \cup {assigned}]
        tagged == save_tags(saved, user, data.tags.names, fault)
        done == [tagged.db EXCEPT !.email_personalizations =
                    (@ \ {assigned}) \cup {[assigned EXCEPT !.tags = tagged.tag_objects]}]
    IN  IF found = {} THEN [db |-> db, status |-> "404", pk |-> None]
        ELSE IF EmailPersonalizationErrors(mails, data, partial) # {}
        THEN [db |-> db, status |-> "400", pk |-> None]
        ELSE IF refused                 \* IntegrityError on UPDATE
        THEN [db |-> db, status |-> "500", pk |-> None]
        ELSE IF "tags" \notin data.given THEN [db |-> saved, status |-> "200", pk |-> pk]
        ELSE IF ~tagged.ok
        THEN [db |-> Rollback(db, tagged.db), status |-> "500", pk |-> None]
        ELSE [db |-> done, status |-> "200", pk |-> pk]

\* -------------------------------------------------------- read endpoints
\* EmailAccountViewSet.get_queryset: the accounts of the user.
AccountQueryset(user) == {a \in Accounts : a = user}

\* EmailAccountDetailSerializer: folder_count and email_count
AccountDetail(rows, mails, a) ==
    LET folder_ids == {f.id : f \in {g \in rows : g.account = a}}
    IN  [id |-> a, user |-> a,
         folder_count |-> Cardinality(folder_ids),
         email_count |-> Cardinality({e \in mails : e.folder \in folder_ids})]

\* EmailFolderSerializer
FolderFields(f) ==
    [id |-> f.id, base_name |-> f.base_name, account |-> f.account, parent |-> f.parent]

\* An email count that also takes in the emails of the direct subfolders.
get_email_count_withSubfolders(rows, mails, obj) ==
    Cardinality({e \in mails :
        \/ e.folder = obj.id
        \/ \E c \in rows : c.parent = obj.id /\ c.id = e.folder})

\* EmailFolderDetailSerializer.get_email_count: obj.emails.count()
get_email_count(rows, mails, obj) == Cardinality({e \in mails : e.folder = obj.id})

\* EmailFolderDetailSerializer.get_unread_count:
\* obj.emails.filter(is_read=False).count()
get_unread_count(rows, mails, obj) ==
    Cardinality({e \in mails : e.folder = obj.id /\ ~e.is_read})

\* EmailFolderDetailSerializer.get_subfolder_count: obj.subfolders.count()
get_subfolder_count(rows, mails, obj) == Cardinality(SubfoldersOf(rows, obj))

\* EmailFolderDetailSerializer
FolderDetail(rows, mails, f) ==
    [id |-> f.id, base_name |-> f.base_name, account |-> f.account, parent |-> f.parent,
     email_count |-> get_email_count(rows, mails, f),
     unread_count |-> get_unread_count(rows, mails, f),
     subfolder_count |-> get_subfolder_count(rows, mails, f)]

\* The query parameter is_read: absent, or a text that is_read.lower() finds
\* among "true", "1", "yes" or not.
IsReadAbsent == "absent"
IsReadParams == {IsReadAbsent, "true", "1", "no"}

\* A queryset of emails that leaves out the owner filter.
EmailQueryset_anyOwner(rows, mails, user, folder_id, is_read) ==
    LET byFolder == IF folder_id # None
                    THEN {e \in mails : e.folder = folder_id} ELSE mails
    IN  IF is_read = IsReadAbsent THEN byFolder
        ELSE {e \in byFolder : e.is_read = (is_read \in {"true", "1", "yes"})}

\* EmailViewSet.get_queryset: the emails in the folders of the user's
\* accounts, filtered by the parameters folder and is_read.
EmailQueryset(rows, mails, user, folder_id, is_read) ==
    LET user_folders == {f.id : f \in {g \in rows : g.account = user}}
        queryset == {e \in mails : e.folder \in user_folders}
        byFolder == IF folder_id # None
                    THEN {e \in queryset : e.folder = folder_id} ELSE queryset
    IN  IF is_read = IsReadAbsent THEN byFolder
        ELSE {e \in byFolder : e.is_read = (is_read \in {"true", "1", "yes"})}

\* A reply count that also takes in the replies to the replies.
get_replies_count_withNested(mails, obj) ==
    Cardinality({e \in mails :
        \/ e.in_reply_to = obj.message_id
        \/ \E r \in mails : r.in_reply_to = obj.message_id
                            /\ e.in_reply_to = r.message_id})

\* EmailThreadSerializer.get_replies_count: obj.replies.count()
get_replies_count(mails, obj) ==
    Cardinality({e \in mails : e.in_reply_to = obj.message_id})

\* EmailThreadSerializer.get_has_replies: obj.replies.exists()
get_has_replies(mails, obj) == \E e \in mails : e.in_reply_to = obj.message_id

\* EmailDetailSerializer and EmailThreadSerializer
EmailDetail(e) == e
EmailThread(mails, e) ==
    [message_id |-> e.message_id, folder |-> e.folder, in_reply_to |-> e.in_reply_to,
     is_read |-> e.is_read,
     replies_count |-> get_replies_count(mails, e),
     has_replies |-> get_has_replies(mails, e)]

\* The rows of S serialized one by one, in the order of their rank; rank and
\* shown are functions on S.
Listed(S, rank, shown) ==
    LET ordered == SeqByRank(S, rank)
    IN  [i \in 1..Len(ordered) |-> shown[ordered[i]]]

\* ------------------------------------------------------ address endpoints
\* Email.objects.filter(folder__in=user_folders) of the address view set
UserEmails(rows, mails, user) ==
    {e \in mails : \E f \in rows : f.account = user /\ f.id = e.folder}

\* EmailAddressesViewSet.get_queryset before the limit is applied: the
\* addresses that are sender, recipient or reply-to of an email in a folder
\* of the user; matching holds the addresses that contain the search text.
AddressQueryset(rows, mails, user, matching) ==
    LET user_emails == UserEmails(rows, mails, user)
        address_ids ==
            {e.from_address : e \in {x \in user_emails : x.from_address # None}}
              \cup UNION {e.to_addresses : e \in user_emails}
              \cup {e.reply_to_address :
                       e \in {x \in user_emails : x.reply_to_address # None}}
    IN  {a \in Addresses : a \in address_ids /\ a \in matching}

\* EmailAddressesDetailSerializer: obj.emails_from.count(),
\* obj.emails_to.count(), obj.emails_reply_to.count()
AddressDetail(mails, obj) ==
    [id |-> obj, address |-> obj,
     emails_sent_count |-> Cardinality({e \in mails : e.from_address = obj}),
     emails_received_count |-> Cardinality({e \in mails : obj \in e.to_addresses}),
     emails_reply_to_count |-> Cardinality({e \in mails : e.reply_to_address = obj})]

NoBody == <<>>
NothingRunning == [sync |-> <<>>, creates |-> <<>>]
Idle == [op |-> "none", user |-> None, status |-> "none", arg |-> None, body |-> NoBody]

Reply(op, user, arg, body) ==
    IF \E i \in 1..Len(body) : body[i].err
    THEN [op |-> op, user |-> user, status |-> "500", arg |-> arg, body |-> NoBody]
    ELSE [op |-> op, user |-> user, status |-> "200", arg |-> arg, body |-> body]

DbOrders(rows) == Permutations({f.id : f \in rows})

FirstPks == [folder_personalization |-> 1, email_personalization |-> 1, user_tag |-> 1]

\* No email has been stored and nothing has been personalized.
NoMail ==
    /\ emails = {}
    /\ folder_personalizations = {}
    /\ email_personalizations = {}
    /\ user_tags = {}
    /\ nextPk = FirstPks

Init ==
    /\ folders = {}
    /\ nextId = 1
    /\ rerun = {}
    /\ response = Idle
    /\ running = NothingRunning
    /\ NoMail

\* What building the exchangelib Account in connect() comes to.
ConnectErrors == {"ConnectionError", "TimeoutError", "ValueError", "AttributeError"}
ConnectOutcomes == {"connected"} \cup ConnectErrors

\* A connect() that reports success whatever happened.
connect_alwaysTrue(outcome) == TRUE

\* ExchangeAccount.connect: False when building the Account raised.
connect(outcome) == outcome \notin ConnectErrors

\* ExchangeAccount.retrieve_folders(folder_type="email"): the folders below
\* the inbox, l, unless connect() fails.
exchange_retrieve_folders(outcome, l) ==
    IF ~connect(outcome)
    THEN [raised |-> "UnconnectedExchangeAccountError", folders |-> <<>>]
    ELSE [raised |-> "", folders |-> l]

\* ExchangeAccount.retrieve_emails: inbox.all() unless connect() fails.
exchange_retrieve_emails(outcome) ==
    IF ~connect(outcome) THEN "UnconnectedExchangeAccountError" ELSE ""

\* retrieve_folders() when building the Account raises: the error of
\* exchange_account.retrieve_folders leaves the method before any folder is
\* listed. l is what the inbox holds.
RetrieveFoldersUnconnected(a, outcome, l) ==
    LET exchange_folders == exchange_retrieve_folders(outcome, l)
        r == IF exchange_folders.raised # ""
             THEN [rows |-> folders, nextId |-> nextId]
             ELSE Sync(folders, nextId, a, exchange_folders.folders)
    IN  /\ response.op = "none"
        /\ outcome \in ConnectErrors
        /\ Cardinality(r.rows) <= MaxRows
        /\ folders' = r.rows
        /\ nextId' = r.nextId
        /\ response' = [op |-> "sync", user |-> None,
                        status |-> IF exchange_folders.raised # ""
                                   THEN "unconnected" ELSE "ok",
                        arg |-> [account |-> a, listing |-> <<>>,
                                 outcome |-> outcome], body |-> NoBody]
        /\ UNCHANGED <<rerun, mail, running>>

\* ExchangeEmailAccount.retrieve_emails: the emails are handed to the caller,
\* nothing is stored.
RetrieveEmails(a, outcome) ==
    /\ response.op = "none"
    /\ response' = [op |-> "retrieve_emails", user |-> None,
                    status |-> IF exchange_retrieve_emails(outcome) # ""
                               THEN "unconnected" ELSE "ok",
                    arg |-> [account |-> a, listing |-> <<>>, outcome |-> outcome],
                    body |-> NoBody]
    /\ UNCHANGED <<folders, nextId, rerun, mail, running>>

\* retrieve_folders() on a connected account whose inbox.walk() yields l.
RetrieveFolders(a, l) ==
    LET r == Sync(folders, nextId, a, l)
        again == Sync(r.rows, r.nextId, a, l)
    IN  /\ response.op = "none"
        /\ Cardinality(r.rows) <= MaxRows
        /\ folders' = r.rows
        /\ nextId' = r.nextId
        /\ rerun' = again.rows
        /\ response' = [op |-> "sync", user |-> None,
                        status |-> IF r.ok THEN "ok" ELSE "integrity_error",
                        arg |-> [account |-> a, listing |-> l,
                                 outcome |-> "connected"], body |-> NoBody]
        /\ UNCHANGED <<mail, running>>

\* GET /api/email-folders/tree/[?account=account_id] by user
Tree(user, account_id, ord) ==
    LET queryset == OrderByBaseName(
                        TreeRoots(GetQueryset(folders, user, account_id, None, Names)))
    IN  /\ response.op = "none"
        /\ response' = Reply("tree", user, account_id,
                             SerializeMany(folders, queryset, ord))
        /\ UNCHANGED <<folders, nextId, rerun, mail, running>>

\* GET /api/email-folders/{pk}/subfolders/ by user
Subfolders(user, pk, ord) ==
    LET found == {f \in GetQueryset(folders, user, None, None, Names) : f.id = pk}
    IN  /\ response.op = "none"
        /\ response' =
             IF found = {}
             THEN [op |-> "subfolders", user |-> user, status |-> "404",
                   arg |-> pk, body |-> NoBody]
             ELSE LET folder == CHOOSE f \in found : TRUE
                      subfolders == OrderByBaseName(SubfoldersOf(folders, folder))
                  IN  Reply("subfolders", user, pk,
                            SerializeMany(folders, subfolders, ord))
        /\ UNCHANGED <<folders, nextId, rerun, mail, running>>

\* validate_color(s)
ValidateColor(s) ==
    /\ response.op = "none"
    /\ response' = [op |-> "validate_color", user |-> None,
                    status |-> validate_color(s), arg |-> s, body |-> NoBody]
    /\ UNCHANGED <<folders, nextId, rerun, mail, running>>

\* ColorFieldSerializer().to_internal_value(s)
ToInternalValue(s) ==
    /\ response.op = "none"
    /\ LET r == to_internal_value(s)
       IN  response' = [op |-> "to_internal_value", user |-> None,
                        status |-> r.status, arg |-> s, body |-> r.value]
    /\ UNCHANGED <<folders, nextId, rerun, mail, running>>

\* ColorField().get_prep_value(s)
GetPrepValue(s) ==
    /\ response.op = "none"
    /\ response' = [op |-> "get_prep_value", user |-> None,
                    status |-> "prepared", arg |-> s, body |-> get_prep_value(s)]
    /\ UNCHANGED <<folders, nextId, rerun, mail, running>>

\* The result of an operation is returned to the caller; the tables are as
\* the operation left them.
Return ==
    /\ response.op # "none"
    /\ response' = Idle
    /\ UNCHANGED <<folders, nextId, rerun, mail, running>>

Api ==
    \/ \E u \in Users, a \in Accounts \cup {None}, ord \in DbOrders(folders) :
          Tree(u, a, ord)
    \/ \E u \in Users, pk \in 1..MaxRows, ord \in DbOrders(folders) :
          Subfolders(u, pk, ord)
    \/ Return

Next ==
    \/ \E a \in Accounts, l \in Listings : RetrieveFolders(a, l)
    \/ \E a \in Accounts, o \in ConnectErrors, l \in Listings :
          RetrieveFoldersUnconnected(a, o, l)
    \/ \E a \in Accounts, o \in ConnectOutcomes : RetrieveEmails(a, o)
    \/ Api

Spec == Init /\ [][Next]_vars

\* Folder tables of any shape the schema admits: primary keys 1..n, unique
\* base_name, parent null or an existing row (cycles included).
Tables ==
    UNION {{ {[id |-> i, base_name |-> nm[i], account |-> ac[i], parent |-> pa[i]]
               : i \in 1..n} :
             nm \in {x \in [1..n -> Names] : \A i, j \in 1..n : x[i] = x[j] => i = j},
             ac \in [1..n -> Accounts],
             pa \in [1..n -> 0..n]} : n \in 0..MaxRows}

InitTables ==
    /\ folders \in Tables
    /\ nextId = Cardinality(folders) + 1
    /\ rerun = folders
    /\ response = Idle
    /\ running = NothingRunning
    /\ NoMail

SpecTree == InitTables /\ [][Api]_vars

Color ==
    \/ \E s \in ColorInputs : ValidateColor(s)
    \/ \E s \in ColorInputs : ToInternalValue(s)
    \/ \E s \in ColorInputs : GetPrepValue(s)
    \/ Return

SpecColor == Init /\ [][Color]_vars

\* ------------------------------------------- personalization requests
\* The tables after a request, as the variables' next values.
Commit(db) ==
    /\ Cardinality(db.folder_personalizations)
         + Cardinality(db.email_personalizations) <= MaxPersonalizations
    /\ folder_personalizations' = db.folder_personalizations
    /\ email_personalizations' = db.email_personalizations
    /\ user_tags' = db.user_tags
    /\ nextPk' = db.nextPk

Written(op, user, pk, data, r) ==
    [op |-> op, user |-> user, status |-> r.status,
     arg |-> [pk |-> pk, data |-> data], body |-> <<r.pk>>]

\* POST /api/email-folder-personalizations/ by user. strict: the database
\* refuses a value longer than its column; fault: see save_tags.
CreateFolderPersonalization(user, data, strict, fault) ==
    LET r == FolderPersonalizationCreate(Db, folders, user, data, strict, fault)
    IN  /\ response.op = "none"
        /\ Commit(r.db)
        /\ response' = Written("create_folder_personalization", user, None, data, r)
        /\ UNCHANGED <<folders, nextId, rerun, emails, running>>

\* PUT (partial = FALSE) or PATCH (partial = TRUE)
\* /api/email-folder-personalizations/{pk}/ by user
UpdateFolderPersonalization(user, pk, data, partial, strict, fault) ==
    LET r == FolderPersonalizationUpdate(Db, folders, user, pk, data, partial,
                                         strict, fault)
    IN  /\ response.op = "none"
        /\ Commit(r.db)
        /\ response' = Written(IF partial THEN "partial_update_folder_personalization"
                               ELSE "update_folder_personalization", user, pk, data, r)
        /\ UNCHANGED <<folders, nextId, rerun, emails, running>>

\* EmailFolderPersonalization(folder=folder, display_color=value) cleaned and
\* saved without the API.
SaveFolderPersonalization(folder, value) ==
    LET r == FolderPersonalizationModelSave(Db, folder, value)
    IN  /\ response.op = "none"
        /\ Commit(r.db)
        /\ response' = [op |-> "save_folder_personalization", user |-> None,
                        status |-> r.status, arg |-> value, body |-> <<r.pk>>]
        /\ UNCHANGED <<folders, nextId, rerun, emails, running>>

\* POST /api/email-personalizations/ by user
CreateEmailPersonalization(user, data, fault) ==
    LET r == EmailPersonalizationCreate(Db, emails, user, data, fault)
    IN  /\ response.op = "none"
        /\ Commit(r.db)
        /\ response' = Written("create_email_personalization", user, None, data, r)
        /\ UNCHANGED <<folders, nextId, rerun, emails, running>>

\* PUT (partial = FALSE) or PATCH (partial = TRUE)
\* /api/email-personalizations/{pk}/ by user
UpdateEmailPersonalization(user, pk, data, partial, fault) ==
    LET r == EmailPersonalizationUpdate(Db, folders, emails, user, pk, data,
                                        partial, fault)
    IN  /\ response.op = "none"
        /\ Commit(r.db)
        /\ response' = Written(IF partial THEN "partial_update_email_personalization"
                               ELSE "update_email_personalization", user, pk, data, r)
        /\ UNCHANGED <<folders, nextId, rerun, emails, running>>

\* Request bodies. Every payload names the fields it carries in given; the
\* other fields hold a placeholder that is never read.
NoTags == [well_formed |-> TRUE, names |-> <<>>]
Tags(names) == [well_formed |-> TRUE, names |-> names]
Malformed == [well_formed |-> FALSE, names |-> <<>>]
LongName == Repeat("n", display_name_max_length + 1)
MissingPk == 9

ApiColors == {Chars("#FFF"), Chars("invalid-color")}
ModelColors == {Chars("#FFF"), Chars("notacol"), Chars("rgb(1,2,3)")}

FolderPayload(given, folder, display_name, display_color, tags) ==
    [given |-> given, folder |-> folder, display_name |-> display_name,
     display_color |-> display_color, tags |-> tags]

FolderPayloads ==
    {FolderPayload({"folder"}, f, "", <<>>, NoTags) : f \in {1, 2, MissingPk}}
      \cup {FolderPayload({"folder", "display_color"}, f, "", c, NoTags) :
               f \in {1, 2}, c \in ApiColors}
      \cup {FolderPayload({"folder", "display_color"}, 1, "",
                          Chars("RGB(255, 87, 51)"), NoTags),
            FolderPayload({"folder", "display_name", "display_color"}, 1, "Work",
                          Chars("invalid-color"), NoTags),
            FolderPayload({"folder", "display_name"}, 1, LongName, <<>>, NoTags),
            FolderPayload({"folder", "tags"}, 1, "", <<>>, Malformed),
            FolderPayload({"display_color"}, 0, "", Chars(" #fff"), NoTags),
            FolderPayload({"display_color", "tags"}, 0, "", Chars("#FFF"),
                          Tags(<<"work", "home">>))}

EmailPayload(given, email, notes, importance_level, tags) ==
    [given |-> given, email |-> email, notes |-> notes,
     importance_level |-> importance_level, tags |-> tags]

EmailPayloads ==
    {EmailPayload({"email"}, e, "", <<>>, NoTags) : e \in {1, 2, MissingPk}}
      \cup {EmailPayload({"email", "tags"}, e, "", <<>>, Tags(<<"work">>)) :
               e \in {1, 2}}
      \cup {EmailPayload({"email", "notes", "importance_level"}, 1, "todo",
                         Chars("high"), NoTags),
            EmailPayload({"email", "tags"}, 1, "", <<>>, Malformed),
            EmailPayload({"tags"}, 0, "", <<>>, Tags(<<"work">>)),
            EmailPayload({"notes", "importance_level", "tags"}, 0, "todo", Chars("5"),
                         Tags(<<"work", "home">>))}

\* Where the database may raise while the tags of a payload are saved: at the
\* last tag, after the fields and the earlier tags have been written. A
\* payload of several tags always meets the fault.
Faults(data) ==
    IF "tags" \notin data.given \/ data.tags.names = <<>> THEN {0}
    ELSE IF Len(data.tags.names) > 1 THEN {Len(data.tags.names)}
    ELSE {0, 1}

\* The tables the personalization requests start from: each account has
\* synced one folder and holds one email in it.
PersFolders ==
    Sync(Sync({}, 1, 1, <<[name |-> 1, parent |-> 0]>>).rows, 2, 2,
         <<[name |-> 2, parent |-> 0]>>).rows

PersEmails ==
    {[message_id |-> f.id, folder |-> f.id, in_reply_to |-> None, is_read |-> FALSE,
      from_address |-> None, to_addresses |-> {}, reply_to_address |-> None] :
        f \in PersFolders}

InitPers ==
    /\ folders = PersFolders
    /\ nextId = Cardinality(PersFolders) + 1
    /\ rerun = PersFolders
    /\ response = Idle
    /\ running = NothingRunning
    /\ emails = PersEmails
    /\ folder_personalizations = {}
    /\ email_personalizations = {}
    /\ user_tags = {}
    /\ nextPk = FirstPks

Pers ==
    \/ \E u \in Users, d \in FolderPayloads, strict \in BOOLEAN :
          \E fault \in Faults(d) : CreateFolderPersonalization(u, d, strict, fault)
    \/ \E u \in Users, pk \in 1..2, d \in FolderPayloads, partial, strict \in BOOLEAN :
          \E fault \in Faults(d) :
              UpdateFolderPersonalization(u, pk, d, partial, strict, fault)
    \/ \E f \in {1, 2}, c \in ModelColors : SaveFolderPersonalization(f, c)
    \/ \E u \in Users, d \in EmailPayloads :
          \E fault \in Faults(d) : CreateEmailPersonalization(u, d, fault)
    \/ \E u \in Users, pk \in 1..2, d \in EmailPayloads, partial \in BOOLEAN :
          \E fault \in Faults(d) : UpdateEmailPersonalization(u, pk, d, partial, fault)
    \/ Return

SpecPers == InitPers /\ [][Pers]_vars

\* ------------------------------------------------- concurrent creates
\* A create request is two steps for the database: is_valid() reads it, then
\* serializer.save() writes it. Requests of other callers may run between
\* the two; running.creates holds the requests that have passed is_valid().
WithoutIndex(seq, i) == SubSeq(seq, 1, i - 1) \o SubSeq(seq, i + 1, Len(seq))

\* POST /api/email-folder-personalizations/ up to is_valid()
BeginCreateFolderPersonalization(user, data) ==
    /\ Len(running.creates) < MaxInFlight
    /\ FolderPersonalizationErrors(folders, data, FALSE) = {}
    /\ running' = [running EXCEPT !.creates =
                      Append(@, [model |-> "folder", user |-> user, data |-> data])]
    /\ UNCHANGED <<folders, nextId, rerun, response, mail>>

\* ... and from perform_create on
FinishCreateFolderPersonalization(i) ==
    LET request == running.creates[i]
        r == FolderPersonalizationSerializerCreate(
                 Db, request.user, request.data,
                 FolderPersonalizationValidated(request.data), FALSE, 0)
    IN  /\ response.op = "none"
        /\ request.model = "folder"
        /\ Commit(r.db)
        /\ response' = Written("create_folder_personalization", request.user, None,
                               request.data, r)
        /\ running' = [running EXCEPT !.creates = WithoutIndex(@, i)]
        /\ UNCHANGED <<folders, nextId, rerun, emails>>

\* POST /api/email-personalizations/ up to is_valid()
BeginCreateEmailPersonalization(user, data) ==
    /\ Len(running.creates) < MaxInFlight
    /\ EmailPersonalizationErrors(emails, data, FALSE) = {}
    /\ running' = [running EXCEPT !.creates =
                      Append(@, [model |-> "email", user |-> user, data |-> data])]
    /\ UNCHANGED <<folders, nextId, rerun, response, mail>>

\* ... and from perform_create on; the emails are as is_valid() saw them.
FinishCreateEmailPersonalization(i) ==
    LET request == running.creates[i]
        r == EmailPersonalizationCreate(Db, emails, request.user, request.data, 0)
    IN  /\ response.op = "none"
        /\ request.model = "email"
        /\ Commit(r.db)
        /\ response' = Written("create_email_personalization", request.user, None,
                               request.data, r)
        /\ running' = [running EXCEPT !.creates = WithoutIndex(@, i)]
        /\ UNCHANGED <<folders, nextId, rerun, emails>>

\* Bodies that carry the reference alone.
ReferenceOnly(payloads, field) == {d \in payloads : d.given = {field}}

\* Creates that overlap, and updates that point a personalization at
\* another folder or email.
Creates ==
    \/ \E u \in Users, d \in ReferenceOnly(FolderPayloads, "folder") :
          BeginCreateFolderPersonalization(u, d)
    \/ \E i \in 1..Len(running.creates) : FinishCreateFolderPersonalization(i)
    \/ \E u \in Users, d \in ReferenceOnly(EmailPayloads, "email") :
          BeginCreateEmailPersonalization(u, d)
    \/ \E i \in 1..Len(running.creates) : FinishCreateEmailPersonalization(i)
    \/ \E u \in Users, pk \in 1..2, d \in ReferenceOnly(FolderPayloads, "folder"),
          partial \in BOOLEAN : UpdateFolderPersonalization(u, pk, d, partial, FALSE, 0)
    \/ \E u \in Users, pk \in 1..2, d \in ReferenceOnly(EmailPayloads, "email"),
          partial \in BOOLEAN : UpdateEmailPersonalization(u, pk, d, partial, 0)
    \/ Return

SpecCreate == InitPers /\ [][Creates]_vars

\* ------------------------------------------------------ read requests
Answer(op, user, arg, body) ==
    [op |-> op, user |-> user, status |-> "200", arg |-> arg, body |-> body]

\* get_object() on a queryset, then the serializer: the one record found,
\* serialized, or Http404.
AnswerObject(op, user, pk, shown) ==
    IF shown = {}
    THEN [op |-> op, user |-> user, status |-> "404", arg |-> pk, body |-> NoBody]
    ELSE [op |-> op, user |-> user, status |-> "200", arg |-> pk,
          body |-> <<CHOOSE x \in shown : TRUE>>]

\* GET /api/email-accounts/
ListAccounts(user) ==
    LET queryset == AccountQueryset(user)
    IN  /\ response.op = "none"
        /\ response' = Answer("list_accounts", user, None,
                              Listed(queryset, [a \in queryset |-> a],
                                     [a \in queryset |-> [id |-> a, user |-> a]]))
        /\ UNCHANGED <<folders, nextId, rerun, mail, running>>

\* GET /api/email-accounts/{pk}/
RetrieveAccount(user, pk) ==
    /\ response.op = "none"
    /\ response' = AnswerObject("retrieve_account", user, pk,
                        {AccountDetail(folders, emails, a) :
                            a \in {x \in AccountQueryset(user) : x = pk}})
    /\ UNCHANGED <<folders, nextId, rerun, mail, running>>

\* GET /api/email-folders/[?account=..&parent=..]
ListFolders(user, account_id, parent_id) ==
    LET queryset == GetQueryset(folders, user, account_id, parent_id, Names)
    IN  /\ response.op = "none"
        /\ response' = Answer("list_folders", user,
                              [account |-> account_id, parent |-> parent_id],
                              Listed(queryset, [f \in queryset |-> f.base_name],
                                     [f \in queryset |-> FolderFields(f)]))
        /\ UNCHANGED <<folders, nextId, rerun, mail, running>>

\* GET /api/email-folders/{pk}/
RetrieveFolder(user, pk) ==
    /\ response.op = "none"
    /\ response' = AnswerObject("retrieve_folder", user, pk,
                        {FolderDetail(folders, emails, f) :
                            f \in {x \in GetQueryset(folders, user, None, None, Names) :
                                      x.id = pk}})
    /\ UNCHANGED <<folders, nextId, rerun, mail, running>>

\* GET /api/emails/[?folder=..&is_read=..]
ListEmails(user, folder_id, is_read) ==
    LET queryset == EmailQueryset(folders, emails, user, folder_id, is_read)
    IN  /\ response.op = "none"
        /\ response' = Answer("list_emails", user,
                              [folder |-> folder_id, is_read |-> is_read],
                              Listed(queryset, [e \in queryset |-> e.message_id],
                                     [e \in queryset |-> EmailDetail(e)]))
        /\ UNCHANGED <<folders, nextId, rerun, mail, running>>

\* GET /api/emails/{message_id}/
RetrieveEmail(user, message_id) ==
    /\ response.op = "none"
    /\ response' = AnswerObject("retrieve_email", user, message_id,
                        {EmailDetail(e) :
                            e \in {x \in EmailQueryset(folders, emails, user, None,
                                                       IsReadAbsent) :
                                      x.message_id = message_id}})
    /\ UNCHANGED <<folders, nextId, rerun, mail, running>>

\* GET /api/emails/{message_id}/thread/
Thread(user, message_id) ==
    /\ response.op = "none"
    /\ response' = AnswerObject("thread", user, message_id,
                        {EmailThread(emails, e) :
                            e \in {x \in EmailQueryset(folders, emails, user, None,
                                                       IsReadAbsent) :
                                      x.message_id = message_id}})
    /\ UNCHANGED <<folders, nextId, rerun, mail, running>>

\* GET /api/email-folder-personalizations/
ListFolderPersonalizations(user) ==
    LET queryset == FolderPersonalizationQueryset(folders, folder_personalizations, user)
    IN  /\ response.op = "none"
        /\ response' = Answer("list_folder_personalizations", user, None,
                              Listed(queryset, [p \in queryset |-> p.id],
                                     [p \in queryset |-> p]))
        /\ UNCHANGED <<folders, nextId, rerun, mail, running>>

\* GET /api/email-folder-personalizations/{pk}/
RetrieveFolderPersonalization(user, pk) ==
    /\ response.op = "none"
    /\ response' = AnswerObject("retrieve_folder_personalization", user, pk,
                        {p \in FolderPersonalizationQueryset(
                                   folders, folder_personalizations, user) : p.id = pk})
    /\ UNCHANGED <<folders, nextId, rerun, mail, running>>

\* GET /api/email-personalizations/
ListEmailPersonalizations(user) ==
    LET queryset == EmailPersonalizationQueryset(folders, emails,
                                                 email_personalizations, user)
    IN  /\ response.op = "none"
        /\ response' = Answer("list_email_personalizations", user, None,
                              Listed(queryset, [p \in queryset |-> p.id],
                                     [p \in queryset |-> p]))
        /\ UNCHANGED <<folders, nextId, rerun, mail, running>>

\* GET /api/email-personalizations/{pk}/
RetrieveEmailPersonalization(user, pk) ==
    /\ response.op = "none"
    /\ response' = AnswerObject("retrieve_email_personalization", user, pk,
                        {p \in EmailPersonalizationQueryset(
                                   folders, emails, email_personalizations, user)
                            : p.id = pk})
    /\ UNCHANGED <<folders, nextId, rerun, mail, running>>

\* GET /api/email-addresses/[?limit=limit] by user
ListAddresses(user, limit) ==
    LET queryset == AddressQueryset(folders, emails, user, Addresses)
        ordered == SeqByRank(queryset, [a \in queryset |-> a])
        limited == IF limit = None THEN ordered
                   ELSE SubSeq(ordered, 1, IF limit < Len(ordered) THEN limit
                                           ELSE Len(ordered))
    IN  /\ response.op = "none"
        /\ response' = Answer("list_addresses", user, limit,
                              [i \in 1..Len(limited) |->
                                  [id |-> limited[i], address |-> limited[i]]])
        /\ UNCHANGED <<folders, nextId, rerun, mail, running>>

\* GET /api/email-addresses/{pk}/ by user
RetrieveAddress(user, pk) ==
    /\ response.op = "none"
    /\ response' = AnswerObject("retrieve_address", user, pk,
                        {AddressDetail(emails, a) :
                            a \in {x \in AddressQueryset(folders, emails, user, Addresses) :
                                      x = pk}})
    /\ UNCHANGED <<folders, nextId, rerun, mail, running>>

Reads ==
    \/ \E u \in Users : ListAccounts(u)
    \/ \E u \in Users, pk \in Accounts \cup {MissingPk} : RetrieveAccount(u, pk)
    \/ \E u \in Users, a \in Accounts \cup {None},
          p \in {None, NullParam} \cup 1..MaxRows : ListFolders(u, a, p)
    \/ \E u \in Users, pk \in 1..MaxRows \cup {MissingPk} : RetrieveFolder(u, pk)
    \/ \E u \in Users, a \in Accounts \cup {None}, ord \in DbOrders(folders) :
          Tree(u, a, ord)
    \/ \E u \in Users, pk \in 1..MaxRows, ord \in DbOrders(folders) :
          Subfolders(u, pk, ord)
    \/ \E u \in Users, f \in {None} \cup 1..MaxRows, r \in IsReadParams :
          ListEmails(u, f, r)
    \/ \E u \in Users, m \in 1..(MaxRows + 1) \cup {MissingPk} : RetrieveEmail(u, m)
    \/ \E u \in Users, m \in 1..(MaxRows + 1) \cup {MissingPk} : Thread(u, m)
    \/ \E u \in Users : ListFolderPersonalizations(u)
    \/ \E u \in Users, pk \in 1..MaxRows \cup {MissingPk} :
          RetrieveFolderPersonalization(u, pk)
    \/ \E u \in Users : ListEmailPersonalizations(u)
    \/ \E u \in Users, pk \in 1..(MaxRows + 1) \cup {MissingPk} :
          RetrieveEmailPersonalization(u, pk)
    \/ Return

\* ------------------------------------------------- read-only resources
\* The action the router binds to a method of the list route
\* (/api/<resource>/) and of the detail route (/api/<resource>/{pk}/).
RouterAction(route, method) ==
    CASE route = "list" /\ method = "GET" -> "list"
      [] route = "list" /\ method = "POST" -> "create"
      [] route = "detail" /\ method = "GET" -> "retrieve"
      [] route = "detail" /\ method = "PUT" -> "update"
      [] route = "detail" /\ method = "PATCH" -> "partial_update"
      [] route = "detail" /\ method = "DELETE" -> "destroy"
      [] OTHER -> "unbound"

ReadOnlyResources == {"email-accounts", "email-addresses", "emails", "email-folders"}
WriteMethods == {"POST", "PUT", "PATCH", "DELETE"}

\* View sets that derive from ModelViewSet.
ViewSetActions_modelViewSet(resource) ==
    {"list", "retrieve", "create", "update", "partial_update", "destroy"}

\* The actions the view set of a resource has: those of RetrieveModelMixin
\* and ListModelMixin.
ViewSetActions(resource) ==
    IF resource \in ReadOnlyResources THEN {"list", "retrieve"} ELSE {}

\* The handler of a request: the bound action if the view set has it.
Dispatch(resource, route, method) ==
    IF RouterAction(route, method) \in ViewSetActions(resource)
    THEN RouterAction(route, method)
    ELSE "http_method_not_allowed"

\* POST, PUT, PATCH or DELETE on the list or detail route of a read-only
\* resource, by user.
WriteRequest(user, resource, route, method, pk) ==
    /\ response.op = "none"
    /\ response' = [op |-> "write_request", user |-> user,
                    status |-> IF Dispatch(resource, route, method)
                                    = "http_method_not_allowed"
                               THEN "405" ELSE "200",
                    arg |-> [resource |-> resource, route |-> route,
                             method |-> method, pk |-> pk],
                    body |-> NoBody]
    /\ UNCHANGED <<folders, nextId, rerun, mail, running>>

ReadOnly ==
    \/ Reads
    \/ \E u \in Users, limit \in {None, 1} : ListAddresses(u, limit)
    \/ \E u \in Users, pk \in Addresses \cup {MissingPk} : RetrieveAddress(u, pk)
    \/ \E u \in Users, resource \in ReadOnlyResources, route \in {"list", "detail"},
          method \in WriteMethods, pk \in {1, MissingPk} :
          WriteRequest(u, resource, route, method, pk)

\* The folder tables two syncs leave, whichever accounts they are for and
\* whether or not the second one fails.
MailTables ==
    {t \in {LET first == Sync({}, 1, a1, l1)
            IN  Sync(first.rows, first.nextId, a2, l2).rows :
               a1 \in Accounts, a2 \in Accounts, l1 \in Listings, l2 \in Listings} :
        Cardinality(t) <= MaxRows}

\* A mailbox for a folder table: an unread email in every folder, sent by
\* address 1 to the address numbered like the account, and a read one, in
\* no folder, that replies to the first of them.
OnePerFolder(rows) ==
    {[message_id |-> f.id, folder |-> f.id, in_reply_to |-> None, is_read |-> FALSE,
      from_address |-> 1, to_addresses |-> {f.account}, reply_to_address |-> None] :
        f \in rows}
      \cup {[message_id |-> Cardinality(rows) + 1, folder |-> None,
             in_reply_to |-> IF rows = {} THEN None ELSE 1, is_read |-> TRUE,
             from_address |-> None, to_addresses |-> {}, reply_to_address |-> 1]}

\* Every folder and every email has been personalized.
InitMail ==
    /\ folders \in MailTables
    /\ nextId = Cardinality(folders) + 1
    /\ rerun = folders
    /\ response = Idle
    /\ running = NothingRunning
    /\ emails = OnePerFolder(folders)
    /\ folder_personalizations =
          {[id |-> f.id, folder |-> f.id, display_name |-> "", display_color |-> <<>>,
            tags |-> {}] : f \in folders}
    /\ email_personalizations =
          {[id |-> e.message_id, email |-> e.message_id, notes |-> "",
            importance_level |-> None, tags |-> {}] : e \in emails}
    /\ user_tags = {}
    /\ nextPk = [folder_personalization |-> Cardinality(folders) + 1,
                 email_personalization |-> Cardinality(folders) + 2,
                 user_tag |-> 1]

SpecMail == InitMail /\ [][Reads]_vars

SpecReadOnly == InitMail /\ [][ReadOnly]_vars

\* Forests of folders, each tree within one account, the rows numbered as a
\* first sync numbers them: parents before their children. The statistics
\* do not read base_name, so the rows are named in the order of their ids.
Forests ==
    {t \in Tables :
        \A f \in t : /\ f.base_name = f.id - 1
                     /\ \/ f.parent = None
                        \/ f.parent < f.id /\ Row(t, f.parent).account = f.account}

\* Mailboxes of up to MaxEmails emails, each in any folder of the table or in
\* none, every second one read.
Mailboxes(rows) ==
    UNION {{ {[message_id |-> k, folder |-> fo[k], in_reply_to |-> None,
               is_read |-> (k % 2 = 0), from_address |-> None,
               to_addresses |-> {}, reply_to_address |-> None] : k \in 1..n} :
             fo \in [1..n -> {None} \cup {f.id : f \in rows}]} : n \in 0..MaxEmails}

InitStats ==
    /\ folders \in Forests
    /\ nextId = Cardinality(folders) + 1
    /\ rerun = folders
    /\ response = Idle
    /\ running = NothingRunning
    /\ emails \in Mailboxes(folders)
    /\ folder_personalizations = {}
    /\ email_personalizations = {}
    /\ user_tags = {}
    /\ nextPk = FirstPks

Stats ==
    \/ \E u \in Users, pk \in 1..MaxRows : RetrieveFolder(u, pk)
    \/ Return

SpecStats == InitStats /\ [][Stats]_vars

\* Conversations of up to MaxEmails emails, each in a folder of either user
\* or in none, each a reply to none or to one of the emails before it.
Conversations(rows) ==
    UNION {{ {[message_id |-> k, folder |-> fo[k], in_reply_to |-> re[k],
               is_read |-> FALSE, from_address |-> None, to_addresses |-> {},
               reply_to_address |-> None] : k \in 1..n} :
             fo \in [1..n -> {None} \cup {f.id : f \in rows}],
             re \in {r \in [1..n -> 0..n] : \A k \in 1..n : r[k] < k}} :
           n \in 0..MaxEmails}

InitThread ==
    /\ folders = PersFolders
    /\ nextId = Cardinality(PersFolders) + 1
    /\ rerun = PersFolders
    /\ response = Idle
    /\ running = NothingRunning
    /\ emails \in Conversations(PersFolders)
    /\ folder_personalizations = {}
    /\ email_personalizations = {}
    /\ user_tags = {}
    /\ nextPk = FirstPks

Threads ==
    \/ \E u \in Users, m \in 1..MaxEmails : Thread(u, m)
    \/ Return

SpecThread == InitThread /\ [][Threads]_vars

\* Mailboxes of up to MaxAddressed emails, each in a folder of either user or
\* in none, with any sender, recipients and reply-to address.
AddressedMailboxes(rows) ==
    UNION {{ {[message_id |-> k, folder |-> fo[k], in_reply_to |-> None,
               is_read |-> FALSE, from_address |-> fr[k], to_addresses |-> to[k],
               reply_to_address |-> re[k]] : k \in 1..n} :
             fo \in [1..n -> {None} \cup {f.id : f \in rows}],
             fr \in [1..n -> {None} \cup Addresses],
             to \in [1..n -> SUBSET Addresses],
             re \in [1..n -> {None} \cup Addresses]} : n \in 0..MaxAddressed}

InitAddress ==
    /\ folders = PersFolders
    /\ nextId = Cardinality(PersFolders) + 1
    /\ rerun = PersFolders
    /\ response = Idle
    /\ running = NothingRunning
    /\ emails \in AddressedMailboxes(PersFolders)
    /\ folder_personalizations = {}
    /\ email_personalizations = {}
    /\ user_tags = {}
    /\ nextPk = FirstPks

AddressReads ==
    \/ \E u \in Users, limit \in {None, 1} : ListAddresses(u, limit)
    \/ \E u \in Users, pk \in Addresses \cup {MissingPk} : RetrieveAddress(u, pk)
    \/ Return

SpecAddress == InitAddress /\ [][AddressReads]_vars

\* ------------------------------------------- a sync, one write at a time
\* retrieve_folders issues one statement per loop iteration, each committed
\* on its own; requests of the API are served between them. running.sync
\* holds the method's locals: the listing, folder_map, the loop it is in and
\* the index it is at, and the table as it was when the method was entered.
BeginRetrieveFolders(a, l) ==
    /\ running.sync = <<>>
    /\ response.op = "none"
    /\ running' = [running EXCEPT !.sync =
                      <<[account |-> a, listing |-> l, pass |-> "first", i |-> 1,
                         map |-> EmptyMap, before |-> folders, beforeId |-> nextId]>>]
    /\ UNCHANGED <<folders, nextId, rerun, response, mail>>

\* One iteration of the first loop: update_or_create. An IntegrityError ends
\* the method.
StepFirstPass ==
    /\ running.sync # <<>>
    /\ running.sync[1].pass = "first"
    /\ LET sync == running.sync[1]
           st == UpdateOrCreate([rows |-> folders, nextId |-> nextId, ok |-> TRUE,
                                 map |-> sync.map, created |-> <<>>],
                                sync.account, sync.listing[sync.i].name)
           last == sync.i = Len(sync.listing)
       IN  /\ Cardinality(st.rows) <= MaxRows
           /\ folders' = st.rows
           /\ nextId' = st.nextId
           /\ running' = [running EXCEPT !.sync =
                 <<[sync EXCEPT !.map = st.map,
                                !.pass = IF ~st.ok THEN "raised"
                                         ELSE IF last THEN "second" ELSE "first",
                                !.i = IF last THEN 1 ELSE sync.i + 1]>>]
    /\ UNCHANGED <<rerun, response, mail>>

\* One iteration of the second loop: the parent link is saved if it differs.
\* After the last one the method returns.
StepSecondPass ==
    /\ running.sync # <<>>
    /\ running.sync[1].pass = "second"
    /\ LET sync == running.sync[1]
           st == LinkParent([rows |-> folders, map |-> sync.map],
                            sync.listing, sync.i)
           last == sync.i = Len(sync.listing)
       IN  /\ folders' = st.rows
           /\ running' = [running EXCEPT !.sync =
                 <<[sync EXCEPT !.pass = IF last THEN "returned" ELSE "second",
                                !.i = IF last THEN 1 ELSE sync.i + 1]>>]
    /\ UNCHANGED <<nextId, rerun, response, mail>>

\* The folder tables one sync leaves.
SyncedOnce ==
    {t \in {Sync({}, 1, a, l).rows : a \in Accounts, l \in Listings} :
        Cardinality(t) <= MaxRows}

InitRace ==
    /\ folders \in SyncedOnce
    /\ nextId = Cardinality(folders) + 1
    /\ rerun = folders
    /\ response = Idle
    /\ running = NothingRunning
    /\ NoMail

\* One sync of a mailbox that lists some folder, and tree and subfolders
\* requests before, between and after its writes.
Race ==
    \/ \E a \in Accounts, l \in Listings \ {<<>>} : BeginRetrieveFolders(a, l)
    \/ StepFirstPass
    \/ StepSecondPass
    \/ Api

SpecRace == InitRace /\ [][Race]_vars

\* ------------------------------------------------------ account deletion
\* The deletion collector on EmailFolder: the rows in ids and, following
\* parent (on_delete=CASCADE), every row below them.
RECURSIVE CascadeFolders(_, _)
CascadeFolders(rows, ids) ==
    LET more == {f.id : f \in {g \in rows : g.parent \in ids}} \ ids
    IN  IF more = {} THEN ids ELSE CascadeFolders(rows, ids \cup more)

\* Email.folder with on_delete=CASCADE: the emails go with their folder.
EmailFolderOnDelete_cascade(mails, doomed) ==
    {e \in mails : e.folder \notin doomed}

\* Email.folder, on_delete=SET_NULL
EmailFolderOnDelete(mails, doomed) ==
    {IF e.folder \in doomed THEN [e EXCEPT !.folder = None] ELSE e : e \in mails}

\* EmailAccount.delete(): EmailFolder.account, EmailFolder.parent and
\* EmailFolderPersonalization.folder cascade, Email.folder is set to null.
AccountDelete(db, rows, mails, a) ==
    LET doomed == CascadeFolders(rows, {f.id : f \in {g \in rows : g.account = a}})
    IN  [rows |-> {f \in rows : f.id \notin doomed},
         collected |-> {f \in rows : f.id \in doomed},
         field_updates |-> {e \in mails : e.folder \in doomed},
         mails |-> EmailFolderOnDelete(mails, doomed),
         db |-> [db EXCEPT !.folder_personalizations =
                              {p \in @ : p.folder \notin doomed}]]

\* The accounts deleted so far, as the last response tells.
Deleted == IF response.op = "delete_account" THEN response.arg.deleted ELSE {}

\* account.delete() on an account that exists.
DeleteAccount(a) ==
    LET r == AccountDelete(Db, folders, emails, a)
    IN  /\ a \notin Deleted
        /\ folders' = r.rows
        /\ rerun' = r.rows
        /\ emails' = r.mails
        /\ folder_personalizations' = r.db.folder_personalizations
        /\ response' = [op |-> "delete_account", user |-> None, status |-> "ok",
                        arg |-> [account |-> a, deleted |-> Deleted \cup {a},
                                 collected |-> r.collected,
                                 field_updates |-> r.field_updates],
                        body |-> NoBody]
        /\ UNCHANGED <<nextId, email_personalizations, user_tags, nextPk, running>>

\* Mailboxes left by two syncs, every folder personalized, with emails in any
\* of the folders or in none.
InitDelete ==
    /\ folders \in MailTables
    /\ nextId = Cardinality(folders) + 1
    /\ rerun = folders
    /\ response = Idle
    /\ running = NothingRunning
    /\ emails \in Mailboxes(folders)
    /\ folder_personalizations =
          {[id |-> f.id, folder |-> f.id, display_name |-> "", display_color |-> <<>>,
            tags |-> {}] : f \in folders}
    /\ email_personalizations = {}
    /\ user_tags = {}
    /\ nextPk = [FirstPks EXCEPT !.folder_personalization = Cardinality(folders) + 1]

\* Accounts are deleted one after the other; a deleted account takes no
\* further operation.
Delete == \E a \in Accounts : DeleteAccount(a)

SpecDelete == InitDelete /\ [][Delete]_vars

\* The synchronisation methods of an account, run against mailboxes that
\* already hold folders, emails and personalizations.
SyncOps ==
    \/ \E a \in Accounts, l \in Listings : RetrieveFolders(a, l)
    \/ \E a \in Accounts, o \in ConnectErrors, l \in Listings :
          RetrieveFoldersUnconnected(a, o, l)
    \/ \E a \in Accounts, o \in ConnectOutcomes : RetrieveEmails(a, o)
    \/ Return

SpecSync == InitMail /\ [][SyncOps]_vars

\* ------------------------------------------------------------ properties
\* Ids of the folders met by following parent from folder id.
RECURSIVE AncestorIds(_, _, _)
AncestorIds(rows, id, fuel) ==
    LET p == Row(rows, id).parent
    IN  IF fuel = 0 \/ p = None THEN {}
        ELSE {p} \cup AncestorIds(rows, p, fuel - 1)

IsOwnAncestor(rows, f) == f.id \in AncestorIds(rows, f.id, Cardinality(rows))

\* Every node of a serialized forest, at every depth, parents first.
RECURSIVE Preorder(_)
Preorder(nodes) ==
    IF nodes = <<>> THEN <<>>
    ELSE <<Head(nodes)>> \o Preorder(Head(nodes).subfolders) \o Preorder(Tail(nodes))

IdsOf(nodes) == {nodes[i].id : i \in 1..Len(nodes)}

SortedByBaseName(nodes) ==
    \A i, j \in 1..Len(nodes) : i < j => nodes[i].base_name <= nodes[j].base_name

\* C1: running retrieve_folders once more against the listing it has just
\* processed leaves exactly the rows (ids, base_names, accounts, parent links)
\* the first run left.
C1_ResyncLeavesSameRows == response.op = "sync" => rerun = folders

C1_Witness ==
    /\ response.op = "sync" /\ response.status = "ok"
    /\ Cardinality(folders) >= 2
    /\ \E f \in folders : f.parent # None
    /\ rerun = folders

\* C2: after any sequence of folder syncs no folder is its own ancestor:
\* following parent from a folder never comes back to that folder.
C2_NoFolderIsOwnAncestor == \A f \in folders : ~IsOwnAncestor(folders, f)

\* C3: the tree operation ends with a response, never in unbounded recursion,
\* whatever the parent links of the stored rows (cycles and self-parents
\* included).
C3_TreeTerminates == response.op = "tree" => response.status = "200"

C3_Witness ==
    /\ response.op = "tree" /\ response.status = "200"
    /\ Len(response.body) > 0
    /\ \E f \in folders : f.account = response.user /\ f.parent # f.id
                            /\ IsOwnAncestor(folders, f)

\* C4: the subfolders operation on a folder the caller owns ends with a
\* response, never in unbounded recursion, also when the folder lies on a
\* parent-link cycle.
C4_SubfoldersTerminates ==
    response.op = "subfolders" /\ response.status # "404" => response.status = "200"

\* C5: in a state reached by syncs, the tree of a user has as roots exactly
\* the user's folders without parent, under every node exactly the folders
\* whose parent is that node, and every folder of the user exactly once.
C5_TreeIsWholeForest ==
    response.op = "tree" /\ response.arg = None =>
        LET all == Preorder(response.body)
            mine == {f \in folders : f.account = response.user}
        IN  /\ response.status = "200"
            /\ IdsOf(response.body) = {f.id : f \in {g \in mine : g.parent = None}}
            /\ \A k \in 1..Len(all) :
                  IdsOf(all[k].subfolders) =
                      {c.id : c \in {g \in folders : g.parent = all[k].id}}
            /\ \A f \in mine :
                  Cardinality({k \in 1..Len(all) : all[k].id = f.id}) = 1

\* C6: in the output of tree and of subfolders the top-level list and every
\* nested subfolders list are sorted by base_name ascending.
C6_EveryLevelSorted ==
    response.op \in {"tree", "subfolders"} /\ response.status = "200" =>
        LET all == Preorder(response.body)
        IN  /\ SortedByBaseName(response.body)
            /\ \A k \in 1..Len(all) : SortedByBaseName(all[k].subfolders)

\* The arguments of t when t is name(...): the text between the parentheses
\* cut at the commas, each piece without surrounding whitespace; no
\* arguments when t is not of that shape.
RECURSIVE CutAtCommas(_)
CutAtCommas(s) ==
    LET commas == {i \in 1..Len(s) : s[i] = ","}
    IN  IF commas = {} THEN <<s>>
        ELSE LET c == CHOOSE i \in commas : \A j \in commas : i <= j
             IN  <<SubSeq(s, 1, c - 1)>> \o CutAtCommas(SubSeq(s, c + 1, Len(s)))

Arguments(t, name) ==
    LET n == Len(name)
    IN  IF Len(t) >= n + 2 /\ SubSeq(t, 1, n) = Chars(name)
           /\ t[n + 1] = "(" /\ t[Len(t)] = ")"
        THEN LET parts == CutAtCommas(SubSeq(t, n + 2, Len(t) - 1))
             IN  [i \in 1..Len(parts) |-> Strip(parts[i])]
        ELSE <<>>

IsNumeral(p) == Len(p) >= 1 /\ \A i \in 1..Len(p) : p[i] \in Digits

\* p without its leading zeros
Significant(p) ==
    LET nz == {i \in 1..Len(p) : p[i] # "0"}
    IN  IF nz = {} THEN <<>>
        ELSE SubSeq(p, CHOOSE i \in nz : \A j \in nz : i <= j, Len(p))

\* the value of a numeral of at most three significant digits
Value3(p) ==
    LET q == Significant(p)
        d == [i \in 1..3 |-> IF i > 3 - Len(q) THEN DigitValue(q[i - (3 - Len(q))]) ELSE 0]
    IN  100 * d[1] + 10 * d[2] + d[3]

AboveMax(p, max) == Len(Significant(p)) > 3 \/ Value3(p) > max

\* an integer of one to three digits, at most max
UpTo(p, max) == IsNumeral(p) /\ Len(p) <= 3 /\ ~AboveMax(p, max)

IsPercent(p) == Len(p) >= 2 /\ p[Len(p)] = "%" /\ IsNumeral(SubSeq(p, 1, Len(p) - 1))
PercentOf(p) == SubSeq(p, 1, Len(p) - 1)

\* a decimal literal: digits with at most one point, ending in a digit
IsDecimal(p) ==
    /\ Len(p) >= 1
    /\ \A i \in 1..Len(p) : p[i] \in Digits \cup {"."}
    /\ Cardinality({i \in 1..Len(p) : p[i] = "."}) <= 1
    /\ p[Len(p)] \in Digits

\* a decimal literal whose float value lies in [0, 1]
UnitInterval(p) == IsDecimal(p) /\ AlphaInRange(p)

IsHexColor(t) ==
    /\ Len(t) \in {4, 7, 9}
    /\ t[1] = "#"
    /\ \A i \in 2..Len(t) : t[i] \in Digits \cup {"a", "b", "c", "d", "e", "f"}

IsRgb(a) == Len(a) = 3 /\ \A i \in 1..3 : UpTo(a[i], 255)
IsRgba(a) == Len(a) = 4 /\ (\A i \in 1..3 : UpTo(a[i], 255)) /\ UnitInterval(a[4])
IsHslPart(a) ==
    /\ UpTo(a[1], 360)
    /\ IsPercent(a[2]) /\ UpTo(PercentOf(a[2]), 100)
    /\ IsPercent(a[3]) /\ UpTo(PercentOf(a[3]), 100)
IsHsl(a) == Len(a) = 3 /\ IsHslPart(a)
IsHsla(a) == Len(a) = 4 /\ IsHslPart(a) /\ UnitInterval(a[4])

InColorGrammar(t) ==
    \/ t = <<>>
    \/ IsHexColor(t)
    \/ t \in CSS_NAMED_COLORS
    \/ IsRgb(Arguments(t, "rgb"))
    \/ IsRgba(Arguments(t, "rgba"))
    \/ IsHsl(Arguments(t, "hsl"))
    \/ IsHsla(Arguments(t, "hsla"))

RgbDefect(a) ==
    /\ \A i \in 1..3 : IsNumeral(a[i])
    /\ \E i \in 1..3 : AboveMax(a[i], 255)
HslDefect(a) ==
    /\ IsNumeral(a[1]) /\ IsPercent(a[2]) /\ IsPercent(a[3])
    /\ \/ AboveMax(a[1], 360)
       \/ AboveMax(PercentOf(a[2]), 100)
       \/ AboveMax(PercentOf(a[3]), 100)
AlphaDefect(p) == IsDecimal(p) /\ ~AlphaInRange(p)

\* C8: an rgb, rgba, hsl or hsla string whose only defect is a component above
\* its range (an integer of any number of digits, or an alpha above 1) is
\* rejected with the error of its grammar, never with invalid_color_format.
C8_RangeErrorIsSpecific ==
    response.op = "validate_color" =>
        LET t == Lower(Strip(response.arg))
            rgb == Arguments(t, "rgb")
            rgba == Arguments(t, "rgba")
            hsl == Arguments(t, "hsl")
            hsla == Arguments(t, "hsla")
        IN  /\ Len(rgb) = 3 /\ RgbDefect(rgb) => response.status = "invalid_rgb_range"
            /\ Len(rgba) = 4 /\ (\A i \in 1..3 : IsNumeral(rgba[i])) /\ IsDecimal(rgba[4])
                 /\ (RgbDefect(rgba) \/ AlphaDefect(rgba[4]))
                 => response.status = "invalid_rgba_range"
            /\ Len(hsl) = 3 /\ HslDefect(hsl) => response.status = "invalid_hsl_range"
            /\ Len(hsla) = 4 /\ IsNumeral(hsla[1]) /\ IsPercent(hsla[2])
                 /\ IsPercent(hsla[3]) /\ IsDecimal(hsla[4])
                 /\ (HslDefect(hsla) \/ AlphaDefect(hsla[4]))
                 => response.status = "invalid_hsla_range"

\* r is s without its leading and trailing whitespace, letters lower-cased,
\* and nothing else changed
IsTrimmedLowerCaseOf(r, s) ==
    \E a, b \in 0..Len(s) :
        /\ a + b <= Len(s)
        /\ \A k \in 1..a : s[k] \in Whitespace
        /\ \A k \in (Len(s) - b + 1)..Len(s) : s[k] \in Whitespace
        /\ Len(r) = Len(s) - a - b
        /\ Len(r) > 0 => r[1] \notin Whitespace /\ r[Len(r)] \notin Whitespace
        /\ \A k \in 1..Len(r) : r[k] = LowerChar(s[a + k])

Accepted ==
    \/ response.op = "to_internal_value" /\ response.status = "valid"
    \/ response.op = "get_prep_value" /\ validate_color(response.arg) = "valid"

\* C9: for an accepted input, to_internal_value and get_prep_value give the
\* input trimmed and lower-cased and otherwise unchanged; the empty string
\* and whitespace-only strings are accepted and give the empty string.
C9_NormalizedIsTrimmedLowerCase ==
    /\ Accepted => IsTrimmedLowerCaseOf(response.body, response.arg)
    /\ response.op \in {"to_internal_value", "get_prep_value"}
         /\ (\A i \in 1..Len(response.arg) : response.arg[i] \in Whitespace)
         => Accepted /\ response.body = <<>>

C9_Witness ==
    /\ Accepted
    /\ response.body = Chars("#fff")
    /\ Len(response.arg) > 4 /\ response.arg[1] \in Whitespace

\* C10: normalizing the normalized value of an accepted input succeeds and
\* gives the same value, for to_internal_value and for get_prep_value.
C10_NormalizeIsIdempotent ==
    /\ response.op = "to_internal_value" /\ response.status = "valid"
         => to_internal_value(response.body) =
                [status |-> "valid", value |-> response.body]
    /\ response.op = "get_prep_value" /\ validate_color(response.arg) = "valid"
         => /\ get_prep_value(response.body) = response.body
            /\ validate_color(response.body) = "valid"

C10_Witness ==
    /\ Accepted
    /\ response.body # response.arg
    /\ Len(Arguments(response.body, "rgba")) = 4

FolderWrites ==
    {"create_folder_personalization", "update_folder_personalization",
     "partial_update_folder_personalization"}
EmailWrites ==
    {"create_email_personalization", "update_email_personalization",
     "partial_update_email_personalization"}
Succeeded(resp) == resp.status \in {"200", "201"}

\* display_color of the stored folder personalization pk
StoredColor(pk) ==
    (CHOOSE p \in folder_personalizations : p.id = pk).display_color

\* C11: the check the model layer applies to display_color and the check of
\* ColorFieldSerializer accept the same strings and store the same normalized
\* value: a value saved through the model is one the API accepts, stored as
\* the API normalizes it, every value the API accepts can be saved through the
\* model, and a display_color written through the API is stored normalized.
C11_ModelAndApiAgree ==
    /\ response.op = "save_folder_personalization" =>
          LET api == run_validation(response.arg)
          IN  /\ display_color_clean(response.arg) = "valid" <=> api.status = "valid"
              /\ response.status = "saved" => StoredColor(response.body[1]) = api.value
    /\ response.op \in FolderWrites /\ Succeeded(response)
          /\ "display_color" \in response.arg.data.given
          => StoredColor(response.body[1])
                = run_validation(response.arg.data.display_color).value

\* The user who owns the record a personalization request refers to (None
\* when the request names no record or a record that does not exist).
OwnerOfFolder(id) ==
    IF \E f \in folders : f.id = id
    THEN (CHOOSE f \in folders : f.id = id).account ELSE None
OwnerOfEmail(message_id) ==
    IF \E e \in emails : e.message_id = message_id
    THEN OwnerOfFolder((CHOOSE e \in emails : e.message_id = message_id).folder)
    ELSE None
RefersToForeignRecord(resp) ==
    \/ /\ resp.op \in FolderWrites
       /\ "folder" \in resp.arg.data.given
       /\ OwnerOfFolder(resp.arg.data.folder) \notin {None, resp.user}
    \/ /\ resp.op \in EmailWrites
       /\ "email" \in resp.arg.data.given
       /\ OwnerOfEmail(resp.arg.data.email) \notin {None, resp.user}

\* The user who owns what a personalization is for (None when it is not there).
OwnerOfFolderPersonalization(pk) ==
    IF \E p \in folder_personalizations : p.id = pk
    THEN OwnerOfFolder((CHOOSE p \in folder_personalizations : p.id = pk).folder)
    ELSE None
OwnerOfEmailPersonalization(pk) ==
    IF \E p \in email_personalizations : p.id = pk
    THEN OwnerOfEmail((CHOOSE p \in email_personalizations : p.id = pk).email)
    ELSE None

\* The owner of a record in the body of a response to op.
OwnerOfRecord(op, rec) ==
    CASE op \in {"list_accounts", "retrieve_account"} -> rec.user
      [] op \in {"list_folders", "retrieve_folder", "tree", "subfolders"} -> rec.account
      [] op \in {"list_emails", "retrieve_email", "thread"} -> OwnerOfFolder(rec.folder)
      [] op \in {"list_folder_personalizations", "retrieve_folder_personalization"} ->
            OwnerOfFolder(rec.folder)
      [] op \in {"list_email_personalizations", "retrieve_email_personalization"} ->
            OwnerOfEmail(rec.email)

\* The owner of the record a detail request names (None when there is none).
OwnerOfTarget(op, pk) ==
    CASE op = "retrieve_account" -> IF pk \in Accounts THEN pk ELSE None
      [] op \in {"retrieve_folder", "subfolders"} -> OwnerOfFolder(pk)
      [] op \in {"retrieve_email", "thread"} -> OwnerOfEmail(pk)
      [] op = "retrieve_folder_personalization" -> OwnerOfFolderPersonalization(pk)
      [] op = "retrieve_email_personalization" -> OwnerOfEmailPersonalization(pk)

ListReads ==
    {"list_accounts", "list_folders", "tree", "list_emails",
     "list_folder_personalizations", "list_email_personalizations"}
DetailReads ==
    {"retrieve_account", "retrieve_folder", "subfolders", "retrieve_email", "thread",
     "retrieve_folder_personalization", "retrieve_email_personalization"}

\* The records of a response, the nested subfolders of a tree included.
Records(resp) ==
    IF resp.op \in {"tree", "subfolders"} THEN Preorder(resp.body) ELSE resp.body

\* C12: every record a list, retrieve, tree, subfolders or thread request of
\* user U returns, nested folders included, belongs to an account of U, and
\* a detail request for a record U does not own is answered like one for an
\* id that does not exist: 404 with no body.
C12_ReadsAreOwnerScoped ==
    response.op \in ListReads \cup DetailReads =>
        /\ \A i \in 1..Len(Records(response)) :
              OwnerOfRecord(response.op, Records(response)[i]) = response.user
        /\ response.op \in DetailReads
              /\ OwnerOfTarget(response.op, response.arg) # response.user
              => response.status = "404" /\ response.body = NoBody

\* A user has asked for a folder of another user, a folder that holds an
\* email, has a subfolder and is personalized.
C12_Witness ==
    /\ response.op = "retrieve_folder"
    /\ response.status = "404"
    /\ \E f \in folders :
          /\ f.id = response.arg
          /\ f.account # response.user
          /\ \E c \in folders : c.parent = f.id /\ c.id # f.id
          /\ \E e \in emails : e.folder = f.id
          /\ \E p \in folder_personalizations : p.folder = f.id
    /\ \E g \in folders : g.account = response.user

\* C13: a create or update request whose folder or email reference points at
\* a record of another user is rejected, and it stores or changes no
\* personalization.
C13_ForeignReferenceIsRejected ==
    [][RefersToForeignRecord(response')
          => /\ ~Succeeded(response')
             /\ UNCHANGED <<folder_personalizations, email_personalizations>>]_vars

\* C14: a personalization keeps the folder or email it was created for: no
\* update or partial update changes the reference of a stored record.
C14_ReferenceNeverChanges ==
    [][/\ \A p \in folder_personalizations, q \in folder_personalizations' :
              q.id = p.id => q.folder = p.folder
       /\ \A p \in email_personalizations, q \in email_personalizations' :
              q.id = p.id => q.email = p.email]_vars

C16_StatisticsAreDirectOnly ==
    response.op = "retrieve_folder" /\ response.status = "200" =>
        LET f == Row(folders, response.arg)
            detail == response.body[1]
            inFolder == {e \in emails : e.folder = f.id}
            children == {c \in folders : c.parent = f.id}
        IN  /\ detail.email_count = Cardinality(inFolder)
            /\ detail.unread_count = Cardinality({e \in inFolder : ~e.is_read})
            /\ detail.subfolder_count = Cardinality(children)
            /\ detail = FolderDetail({f} \cup children, inFolder, f)

\* The folder asked for holds a read and an unread email, and has a
\* subfolder that holds an email and has a subfolder of its own.
C16_Witness ==
    /\ response.op = "retrieve_folder"
    /\ response.status = "200"
    /\ \E c, g \in folders :
          /\ c.parent = response.arg
          /\ g.parent = c.id
          /\ \E e \in emails : e.folder = c.id
    /\ \E e1, e2 \in emails :
          /\ e1.folder = response.arg /\ e1.is_read
          /\ e2.folder = response.arg /\ ~e2.is_read

\* C17: the thread view of an email E reports as replies_count the number of
\* emails whose in_reply_to is E, replies to those replies not counted, and
\* has_replies exactly when that number is above zero.
C17_RepliesAreDirectOnly ==
    response.op = "thread" /\ response.status = "200" =>
        LET e == CHOOSE x \in emails : x.message_id = response.arg
            view == response.body[1]
            replies == {r \in emails : r.in_reply_to = e.message_id}
        IN  /\ view.replies_count = Cardinality(replies)
            /\ view.has_replies <=> view.replies_count > 0
            /\ view = EmailThread({e} \cup replies, e)

\* The email asked for has a reply that has a reply itself.
C17_Witness ==
    /\ response.op = "thread"
    /\ response.status = "200"
    /\ response.body[1].replies_count = 1
    /\ \E r1, r2 \in emails :
          r1.in_reply_to = response.arg /\ r2.in_reply_to = r1.message_id

\* The row of account a named n, and whether listing l holds a folder named n.
RowNamed(rows, a, n) == CHOOSE f \in rows : f.account = a /\ f.base_name = n
InListing(l, n) == \E j \in 1..Len(l) : l[j].name = n
MaxOf(S) == CHOOSE x \in S : \A y \in S : y <= x
SyncedOk == response.op = "sync" /\ response.status = "ok"

\* C18: whatever accounts have been synced, in whatever order, a folder with
\* a parent belongs to the account its parent belongs to.
C18_ParentInSameAccount ==
    \A f \in folders : f.parent # None => Row(folders, f.parent).account = f.account

\* A sync of one account has met a remote parent whose name is borne by a
\* row of another account, and parent links exist.
C18_Witness ==
    /\ SyncedOk
    /\ \E i \in 1..Len(response.arg.listing), h \in folders :
          /\ h.base_name = ParentName(response.arg.listing, i)
          /\ h.account # response.arg.account
          /\ RowNamed(folders, response.arg.account,
                      response.arg.listing[i].name).parent = None
    /\ \E f \in folders : f.parent # None /\ f.parent # f.id

C20_OneRowPerObservedName ==
    [][/\ response'.op = "sync" /\ response'.status # "unconnected" =>
             \A i \in 1..Len(response'.arg.listing) :
                 Cardinality({g \in folders' :
                                 /\ g.account = response'.arg.account
                                 /\ g.base_name = response'.arg.listing[i].name}) = 1
       /\ \A f \in folders : \E g \in folders' :
              g.id = f.id /\ g.base_name = f.base_name /\ g.account = f.account
       /\ \A g \in folders' :
              (\A f \in folders : f.id # g.id) =>
                  /\ response'.op = "sync"
                  /\ g.account = response'.arg.account
                  /\ InListing(response'.arg.listing, g.base_name)
                  /\ \A h \in folders' :
                        h.account = g.account /\ h.base_name = g.base_name => h = g]_vars
\* C21: a sync of account A deletes no Folder row and leaves unchanged every
\* folder of every other account, every Email, and every folder of A whose
\* name is not in the remote listing, its parent link included.
C21_SyncTouchesOnlyListedRows ==
    [][response'.op = "sync" =>
         LET a == response'.arg.account
             l == response'.arg.listing
         IN  /\ \A f \in folders : \E g \in folders' : g.id = f.id
             /\ \A f \in folders :
                    (f.account # a \/ ~InListing(l, f.base_name)) => f \in folders'
             /\ emails' = emails]_vars

\* A sync of A has ended well while another account holds a folder, an email
\* is stored in a folder of A, and a folder of A that the listing does not
\* name has a parent.
C21_Witness ==
    /\ response.op = "sync"
    /\ response.status = "ok"
    /\ response.arg.listing # <<>>
    /\ \E f \in folders : f.account # response.arg.account
    /\ \E f \in folders :
          /\ f.account = response.arg.account
          /\ ~InListing(response.arg.listing, f.base_name)
          /\ f.parent # None
          /\ \E e \in emails : e.folder = f.id

\* C22: when connecting to the remote mailbox fails (connect returns false
\* on a connection error, a timeout or a bad value), retrieve_folders and
\* retrieve_emails raise UnconnectedExchangeAccountError and the call creates,
\* modifies and deletes no Folder row.
C22_FailedConnectWritesNothing ==
    [][(/\ response'.op \in {"sync", "retrieve_emails"}
        /\ response'.arg.outcome \in {"ConnectionError", "TimeoutError", "ValueError"})
         => /\ response'.status = "unconnected"
            /\ folders' = folders]_vars

\* retrieve_folders has met a connect that timed out, on an account that
\* holds nested folders.
C22_Witness ==
    /\ response.op = "sync"
    /\ response.arg.outcome = "TimeoutError"
    /\ response.status = "unconnected"
    /\ \E f \in folders : f.account = response.arg.account /\ f.parent # None

\* C23: deleting an account deletes every folder of that account at every
\* depth, deletes no Email, and leaves every email that was in one of those
\* folders stored with a null folder reference; folders and emails of other
\* accounts are unchanged.
C23_AccountDeletionCascades ==
    [][response'.op = "delete_account" =>
         LET a == response'.arg.account
             gone == {f \in folders : f.account = a}
         IN  /\ folders' = folders \ gone
             /\ {e.message_id : e \in emails'} = {e.message_id : e \in emails}
             /\ \A e \in emails :
                    IF \E f \in gone : f.id = e.folder
                    THEN [e EXCEPT !.folder = None] \in emails'
                    ELSE e \in emails']_vars

\* An account with a nested folder that held an email has been deleted while
\* the other account keeps a folder with an email in it.
C23_Witness ==
    /\ response.op = "delete_account"
    /\ \E f, g \in response.arg.collected :
          /\ g.parent = f.id /\ g.id # f.id
          /\ \E e \in response.arg.field_updates : e.folder = g.id
    /\ \E f \in folders : \E e \in emails : e.folder = f.id

\* C24: in every reachable state each Email has at most one
\* EmailPersonalization and each Folder at most one
\* EmailFolderPersonalization; a second create for the same email or folder,
\* also when two creates run concurrently, is rejected and leaves the
\* existing record unchanged.
C24_OnePersonalizationPerTarget ==
    [][/\ \A p, q \in folder_personalizations' : p.folder = q.folder => p = q
       /\ \A p, q \in email_personalizations' : p.email = q.email => p = q
       /\ (/\ response.op = "none"
           /\ response'.op = "create_folder_personalization"
           /\ "folder" \in response'.arg.data.given
           /\ \E p \in folder_personalizations : p.folder = response'.arg.data.folder)
            => /\ ~Succeeded(response')
               /\ folder_personalizations' = folder_personalizations
       /\ (/\ response.op = "none"
           /\ response'.op = "create_email_personalization"
           /\ "email" \in response'.arg.data.given
           /\ \E p \in email_personalizations : p.email = response'.arg.data.email)
            => /\ ~Succeeded(response')
               /\ email_personalizations' = email_personalizations]_vars

\* A create for a folder has been refused by the database because the folder
\* was personalized after the request had passed is_valid(), while the other
\* user's create for the same folder is still under way.
C24_Witness ==
    /\ response.op = "create_folder_personalization"
    /\ response.status = "500"
    /\ \E p \in folder_personalizations : p.folder = response.arg.data.folder
    /\ Cardinality(folder_personalizations) = 1
    /\ Len(running.creates) = 1
    /\ running.creates[1].data.folder = response.arg.data.folder
    /\ running.creates[1].user # response.user

\* The personalization a successful write request has stored or changed.
WrittenRecord(resp, fps, eps) ==
    IF resp.op \in FolderWrites
    THEN CHOOSE p \in fps : p.id = resp.body[1]
    ELSE CHOOSE p \in eps : p.id = resp.body[1]

\* C25: after any sequence of personalization create and update requests by
\* any users there is at most one tag record per (name, user) pair, every tag
\* record a request creates belongs to the requesting user, and the tags of
\* a request are attached as the requesting user's own records of those
\* names, so that two users who use one name are attached to two records.
C25_TagsArePerUser ==
    [][/\ \A t, u \in user_tags' : t.name = u.name /\ t.user = u.user => t = u
       /\ \A t \in user_tags' \ user_tags : t.user = response'.user
       /\ (/\ response.op = "none"
           /\ response'.op \in FolderWrites \cup EmailWrites
           /\ Succeeded(response')
           /\ "tags" \in response'.arg.data.given)
            => LET names == response'.arg.data.tags.names
                   record == WrittenRecord(response', folder_personalizations',
                                           email_personalizations')
               IN  record.tags =
                      {t.id : t \in {u \in user_tags' :
                          /\ u.user = response'.user
                          /\ \E i \in 1..Len(names) : names[i] = u.name}}]_vars

\* Both users have tagged a personalization "work": there are two records of
\* that name, each attached to one of the two personalizations.
C25_Witness ==
    \E t, u \in user_tags :
        /\ t.name = "work" /\ u.name = "work" /\ t.user # u.user
        /\ \E p, q \in folder_personalizations \cup email_personalizations :
              p.tags = {t.id} /\ q.tags = {u.id}

\* C27: the usage counts returned to user U for an address (emails sent from
\* it, sent to it, with it as reply-to) depend only on the emails in U's own
\* folders: they are the counts the same request yields in the state that
\* differs from this one by holding no email outside U's folders.
C27_CountsDependOnOwnEmailsOnly ==
    response.op = "retrieve_address" /\ response.status = "200" =>
        response.body[1] =
            AddressDetail(UserEmails(folders, emails, response.user), response.arg)

ReadOps ==
    {"list_accounts", "retrieve_account", "list_addresses", "retrieve_address",
     "list_emails", "retrieve_email", "thread", "list_folders", "retrieve_folder",
     "tree", "subfolders"}

\* C26: a create, update, partial-update or delete request on accounts,
\* addresses, emails or folders is refused with method-not-allowed and leaves
\* every stored record unchanged; list, retrieve, tree, subfolders and thread
\* requests modify no record.
C26_ReadOnlyResourcesStayAsTheyAre ==
    [][/\ (response.op = "none" /\ response'.op = "write_request")
            => /\ response'.status = "405"
               /\ UNCHANGED <<folders, emails, folder_personalizations,
                              email_personalizations, user_tags>>
       /\ (response.op = "none" /\ response'.op \in ReadOps)
            => UNCHANGED <<folders, emails, folder_personalizations,
                           email_personalizations, user_tags>>]_vars

\* A user's DELETE on the detail route of an existing folder of theirs has
\* been refused, and the folder and the email in it are still stored.
C26_Witness ==
    /\ response.op = "write_request"
    /\ response.status = "405"
    /\ response.arg.resource = "email-folders"
    /\ response.arg.route = "detail"
    /\ response.arg.method = "DELETE"
    /\ \E f \in folders :
          /\ f.id = response.arg.pk /\ f.account = response.user
          /\ \E e \in emails : e.folder = f.id

\* C28: a sync of account A on a connected mailbox completes successfully
\* and leaves A with a row for every name of the listing, whichever folder
\* names are stored for other accounts (two accounts can each hold a folder
\* of one base_name), and it does not modify the other accounts' rows.
C28_NamesOfOtherAccountsDoNotMatter ==
    [][(/\ response.op = "none"
        /\ response'.op = "sync"
        /\ response'.arg.outcome = "connected")
         => /\ response'.status = "ok"
            /\ \A j \in 1..Len(response'.arg.listing) :
                   \E g \in folders' : /\ g.account = response'.arg.account
                                        /\ g.base_name = response'.arg.listing[j].name
            /\ \A f \in folders :
                   f.account # response'.arg.account => f \in folders']_vars

\* C30: if a sync fails after it has started writing (an upsert of the first
\* pass or a parent-link save of the second pass raises), the Folder rows,
\* the parent links of the folders that existed before included, are as they
\* were before the sync began.
C30_FailedSyncRestoresFolders ==
    [][(/\ response.op = "none"
        /\ response'.op = "sync"
        /\ response'.status = "integrity_error")
         => folders' = folders]_vars

\* The sync under way, if one is between two of its writes.
SyncUnderWay == running.sync # <<>> /\ running.sync[1].pass \in {"first", "second"}

\* The folders that have one and the same parent before the sync under way
\* began and after it has completed.
KeepTheirParent ==
    LET sync == running.sync[1]
        after == Sync(sync.before, sync.beforeId, sync.account, sync.listing)
    IN  {f \in sync.before :
            /\ after.ok
            /\ f.parent # None
            /\ \E g \in after.rows : g.id = f.id /\ g.parent = f.parent}

\* C29: a tree or subfolders request served between two writes of a running
\* sync never reports a folder as top-level, and never leaves it out of its
\* parent's subfolders, if the folder has the same non-null parent before
\* the sync starts and after it completes.
C29_ReadsDuringSyncSeeStableParents ==
    (SyncUnderWay /\ response.status = "200") =>
        \A f \in KeepTheirParent :
            /\ response.op = "tree" => f.id \notin IdsOf(response.body)
            /\ (response.op = "subfolders" /\ response.arg = f.parent
                 /\ f.account = response.user)
                  => f.id \in IdsOf(response.body)

====
